---------------------------- MODULE Spec2Model ----------------------------
(***************************************************************************)
(* A model of the IPL static analyzer (src/analyzer.py) and of its driver  *)
(* (src/main.py).                                                          *)
(*                                                                         *)
(*   SpecTypes : the type model (_BaseType, _Type) and its equality.       *)
(*   Spec      : StaticAnalysisInterpreter visiting a unit, one action per *)
(*               visitor method (block constructs: one action for the part *)
(*               of the method before its body, one for the part after).   *)
(*   SpecMain  : main() iterating over its input files.                    *)
(*   SpecGraphs: CFGraphInterpreter and SDGraphInterpreter (src/graphs.py) *)
(*               visiting the same tree.                                   *)
(*   SpecLinks : the loop of _gen_outputs (src/main.py) that links the     *)
(*               function headers of the listing to the graph pages.       *)
(*   SpecIpl   : the scopes of the stand-alone IplInterpreter (src/ipl.py) *)
(*               visiting a unit.                                          *)
(***************************************************************************)
EXTENDS Integers, Sequences, FiniteSets, TLC

VARIABLES
    \* ---- type model: one call of _Type.__eq__ (SpecTypes)
    eq_self, eq_rhs, eq_ret, eq_pc,
    \* ---- StaticAnalysisInterpreter fields (src/analyzer.py:55-64)
    _vars, _fns_params, _fns_ret_types, _curr_fn,
    _num_of_vars_stack, _num_of_new_vars,
    _err_string, _has_errors, _indent_str, _html_buffer,
    \* ---- position of the traversal of the tree being visited
    visiting,      \* the constructs whose body is open, outermost first
    a_pc,          \* "idle" | "unit" | "done" | "raised"
    nodes,         \* number of constructs and instructions visited so far
    \* ---- history of the calls of _set_err_string
    staged,        \* the messages passed to it since the previous flush
    ever_staged,   \* whether it has been called at all
    top_declared,  \* names of the top-level `let`s whose _add_var succeeded
    \* ---- history of the for_flow calls that have not returned
    loop_vars,     \* for each, outermost first, what its _add_var bound
    \* ---- main() (src/main.py:128-151)
    argv, m_i, m_status, err_log, written, m_pc, m_exit,
    \* ---- CFGraphInterpreter and SDGraphInterpreter (src/graphs.py) building
    \* ---- the graphs of one tree
    cfg,           \* the fields of the CFGraphInterpreter
    sdg,           \* the fields of the SDGraphInterpreter
    g_stack,       \* the visitor methods whose body is open, with their locals
    g_pc,          \* "idle" | "unit" | "done"
    g_count,       \* number of constructs and instructions visited so far
    g_stmts,       \* the nodes of the tree visited so far in the function being
                   \* (or last) visited, in order
    \* ---- the loop of _gen_outputs that links the function headers of the
    \* ---- listing to the graph pages (src/main.py:76-113)
    l_names,       \* the functions of the file, in the order of definition
    l_html,        \* html_str: its lines that begin with "fn "
    l_i,           \* number of turns of the loop done
    l_pc,          \* "idle" | "loop" | "done"
    \* ---- IplInterpreter (src/ipl.py): the fields of its scopes and the
    \* ---- position of its traversal
    ipl_vars, ipl_num_of_new_vars, ipl_num_of_vars_stack, ipl_indent_str,
    ipl_visiting,  \* the visitor methods that have not returned, outermost first
    ipl_pc,        \* "idle" | "unit" | "done" | "raised"
    ipl_nodes,     \* number of constructs and instructions visited so far
    ipl_if_left    \* the if_flow that returned in the last step, if one did

tvars == <<eq_self, eq_rhs, eq_ret, eq_pc>>
avars == <<_vars, _fns_params, _fns_ret_types, _curr_fn, _num_of_vars_stack,
           _num_of_new_vars, _err_string, _has_errors, _indent_str,
           _html_buffer, visiting, a_pc, nodes, staged, ever_staged,
           top_declared, loop_vars>>
mvars == <<argv, m_i, m_status, err_log, written, m_pc, m_exit>>
avars_but_visiting ==
    <<_vars, _fns_params, _fns_ret_types, _curr_fn, _num_of_vars_stack,
      _num_of_new_vars, _err_string, _has_errors, _indent_str, _html_buffer,
      a_pc, nodes, staged, ever_staged, top_declared, loop_vars>>
gvars == <<cfg, sdg, g_stack, g_pc, g_count, g_stmts>>
lvars == <<l_names, l_html, l_i, l_pc>>
ivars == <<ipl_vars, ipl_num_of_new_vars, ipl_num_of_vars_stack, ipl_indent_str,
           ipl_visiting, ipl_pc, ipl_nodes, ipl_if_left>>
vars  == <<tvars, avars, mvars, gvars, lvars, ivars>>

\* -------------------------------------------------------------------------
\* Bounds of the model
\* -------------------------------------------------------------------------
MaxArraySize == 2     \* N of array<T, N> ranges over 1..MaxArraySize
MaxNodes     == 3     \* constructs + instructions in one unit
MaxDepth     == 2     \* nesting depth of open bodies
MaxParams    == 1     \* parameters of a function definition
MaxFiles     == 3     \* input files given to main()
MaxStmts     == 4     \* constructs + instructions of a tree given to the graph builders
MaxFrames    == 3     \* visitor methods of the graph builders open at once
MaxFns       == 3     \* functions defined in a file whose headers are linked
MaxIplNodes  == 5     \* constructs + instructions of a unit given to IplInterpreter
MaxIplDepth  == 3     \* visitor methods of IplInterpreter open at once

\* -------------------------------------------------------------------------
\* Python values that the analyzer passes around as "types": a _Type object,
\* None, a tuple (the typename of an array or tuple _Type) or an int.
\* All are records of one shape so that any two can be compared.
\* -------------------------------------------------------------------------
None == "None"

PyNone      == [py |-> "None",  base |-> "", items |-> <<>>, val |-> 0]
PyInt(n)    == [py |-> "int",   base |-> "", items |-> <<>>, val |-> n]
PyTuple(s)  == [py |-> "tuple", base |-> "", items |-> s,    val |-> 0]
\* _Type.__init__(bt, tn): items[1] is the typename
_Type(bt, tn) == [py |-> "_Type", base |-> bt, items |-> <<tn>>, val |-> 0]

IsType(v)   == v.py = "_Type"
Typename(t) == t.items[1]

Prim(bt)       == _Type(bt, PyNone)
ListOf(t)      == _Type("LIST", t)
ArrayOf(t, n)  == _Type("ARRAY", PyTuple(<<t, PyInt(n)>>))
TupleOf(s)     == _Type("TUPLE", PyTuple(s))

INT_T   == Prim("INT")
BOOL_T  == Prim("BOOL")
FLOAT_T == Prim("FLOAT")
VOID_T  == Prim("VOID")
ANY_T   == Prim("ANY")

\* _BaseType members and their values
_BaseType == [INT |-> 0, BOOL |-> 1, FLOAT |-> 2, STRING |-> 3, LIST |-> 4,
              TUPLE |-> 5, ARRAY |-> 6, VOID |-> 7, ANY |-> 8]

\* _BaseType.__eq__ for two members: `self is rhs`, or either one is ANY, or
\* the values are the same.
BaseEq(self, rhs) ==
    \/ self = rhs
    \/ _BaseType[self] = _BaseType["ANY"]
    \/ _BaseType[rhs] = _BaseType["ANY"]
    \/ _BaseType[self] = _BaseType[rhs]

\* `a != b` on members: the default __ne__ inverts __eq__.
BaseNe(self, rhs) == ~BaseEq(self, rhs)

RECURSIVE PyEq(_, _)
RECURSIVE TypeEq(_, _)

\* the variant of _Type.__eq__ whose wildcard is tested on self only, by
\* identity of the base
TypeEqWildcardOnSelf(self, rhs) ==
    IF ~IsType(rhs) THEN FALSE
    ELSE IF self.base = "ANY" THEN TRUE
    ELSE self.base = rhs.base /\ PyEq(Typename(self), Typename(rhs))

\* _Type.__eq__.  `self.base == _BaseType['ANY']` is a call of
\* _BaseType.__eq__ with rhs = ANY.  `self is rhs` is object identity: two
\* identical objects are in particular the same value.
TypeEq(self, rhs) ==
    IF ~IsType(rhs) THEN FALSE
    ELSE IF BaseEq(self.base, "ANY") \/ BaseEq(rhs.base, "ANY") THEN TRUE
    ELSE BaseEq(self.base, rhs.base) /\ PyEq(Typename(self), Typename(rhs))

\* Python's `a == b` on the values above.  NoneType, int and tuple answer
\* NotImplemented for a _Type operand, and the reflected _Type.__eq__ then
\* answers False; tuples compare element by element.
PyEq(a, b) ==
    CASE a.py = "_Type" -> TypeEq(a, b)
      [] a.py = "None"  -> b.py = "None"
      [] a.py = "int"   -> b.py = "int" /\ a.val = b.val
      [] a.py = "tuple" -> /\ b.py = "tuple"
                           /\ Len(a.items) = Len(b.items)
                           /\ \A i \in 1..Len(a.items) :
                                  PyEq(a.items[i], b.items[i])

PyNe(a, b) == ~PyEq(a, b)

\* _Type.is_param
is_param(self, t) == PyEq(Typename(self), t)

\* -------------------------------------------------------------------------
\* SpecTypes: _Type.__eq__ applied to two Types of a bounded universe
\* -------------------------------------------------------------------------
PrimBases == {"INT", "BOOL", "FLOAT", "STRING", "VOID", "ANY"}
Types0 == {Prim(b) : b \in PrimBases}
Composite(S) ==
    {ListOf(t) : t \in S}
    \cup {ArrayOf(t, n) : t \in S, n \in 1..MaxArraySize}
    \cup {TupleOf(<<t, u>>) : t \in {INT_T, FLOAT_T, ANY_T}, u \in S}
Types1 == Types0 \cup Composite(Types0)
TypeUniverse == Types1 \cup {ListOf(t) : t \in Composite(Types0)}

TypesIdle ==
    /\ eq_self = PyNone /\ eq_rhs = PyNone /\ eq_ret = None /\ eq_pc = "idle"

TypesInit ==
    /\ eq_self \in TypeUniverse
    /\ eq_rhs \in TypeUniverse
    /\ eq_ret = None
    /\ eq_pc = "call"

\* The action of SpecTypes: the call returns.
TypeEquals ==
    /\ eq_pc = "call"
    /\ eq_ret' = TypeEq(eq_self, eq_rhs)
    /\ eq_pc' = "ret"
    /\ UNCHANGED <<eq_self, eq_rhs, avars, mvars, gvars, lvars, ivars>>

\* -------------------------------------------------------------------------
\* The analyzer: error slot, scopes, variable table
\* -------------------------------------------------------------------------
\* The slot is the pair of fields (_err_string, _has_errors).
Slot(s, h) == [err_string |-> s, has_errors |-> h]

\* A variant of _set_err_string in which the last message wins.
SetErrStringLastWins(slot, s) == Slot(s, TRUE)

\* A variant of _set_err_string that forgets to latch _has_errors.
SetErrStringNoLatch(slot, s) ==
    IF slot.err_string = None THEN Slot(s, slot.has_errors) ELSE slot

\* _set_err_string
_set_err_string(slot, s) ==
    IF slot.err_string = None THEN Slot(s, TRUE) ELSE slot

\* _set_err_string called once for every message of msgs, in order
RECURSIVE SetAll(_, _)
SetAll(slot, msgs) ==
    IF msgs = <<>> THEN slot
    ELSE SetAll(_set_err_string(slot, Head(msgs)), Tail(msgs))

\* _flush_err_string: the line written (code is the kind of line; the text
\* of the code is not modelled) and the slot afterwards.
Line(code, err) == [code |-> code, err |-> err]
_flush_err_string(slot, code) ==
    [line |-> Line(code, slot.err_string),
     slot |-> Slot(None, slot.has_errors)]

\* Of _html_buffer the model keeps the last line written and whether some
\* line was written as <div class="error">.
Buffer(last, errdiv) == [last |-> last, errdiv |-> errdiv]
BufWrite(buf, line) == Buffer(line, buf.errdiv \/ line.err # None)

\* _vars is an insertion-ordered dict: a sequence of bindings
Binding(id, tn) == [id |-> id, tn |-> tn]
VarIds(V)     == {V[i].id : i \in 1..Len(V)}
VarGet(V, id) == V[CHOOSE i \in 1..Len(V) : V[i].id = id].tn

\* Result of _add_var: the table, the counter and the messages it staged
Added(V, n, errs) == [vars |-> V, n |-> n, errs |-> errs]

\* A variant of _add_var that counts the failed declaration too.
AddVarCountsFailure(V, n, var_id, var_type) ==
    IF var_id \notin VarIds(V)
    THEN Added(Append(V, Binding(var_id, var_type)), n + 1, <<>>)
    ELSE Added(V, n + 1, <<"Variable already defined">>)

\* _add_var
_add_var(V, n, var_id, var_type) ==
    IF var_id \notin VarIds(V)
    THEN Added(Append(V, Binding(var_id, var_type)), n + 1, <<>>)
    ELSE Added(V, n, <<"Variable already defined">>)

IndentWidth == 4
\* _indent / _dedent on the length of _indent_str
_indent(len) == len + IndentWidth
_dedent(len) == IF len >= IndentWidth THEN len - IndentWidth ELSE 0

\* -------------------------------------------------------------------------
\* Expressions.  A tree node is [k: rule name, id: token, args: children].
\* -------------------------------------------------------------------------
Node(k, id, args) == [k |-> k, id |-> id, args |-> args]

VarNames  == {"x", "y"}
FuncNames == {"f"}

IntLit   == Node("int_literal", "", <<>>)
FloatLit == Node("float_literal", "", <<>>)
BoolLit  == Node("bool_literal", "", <<>>)
Read     == Node("read", "", <<>>)
Deref(v) == Node("var_deref", v, <<>>)

EmptyList == Node("list_literal", "", <<>>)
Elem(v)   == Node("var_deref", v, <<IntLit>>)

Call(f, a) == Node("func_call", f, a)
HeadOf(e)  == Node("head", "", <<e>>)

\* The expressions the visited units are built from, by the place where
\* they stand: initializers of `let`, operands of `return`, conditions,
\* iterables of `for`, right-hand sides, arguments of write, calls.
Initializers ==
    {IntLit, FloatLit, Read, Deref("x"), Deref("y"), Elem("x"),
     HeadOf(IntLit), HeadOf(Read), HeadOf(HeadOf(Read)), Call("f", <<>>),
     Node("plus_expr", "", <<IntLit, FloatLit>>)}
Returned ==
    {IntLit, FloatLit, Read, Deref("x"), HeadOf(Read), Call("f", <<IntLit>>),
     Node("plus_expr", "", <<Elem("x"), IntLit>>),
     Node("eq_expr", "", <<HeadOf(Read), IntLit>>)}
Conditions == {BoolLit, IntLit, Read, HeadOf(Read)}
Iterables ==
    {Read, IntLit, EmptyList, Deref("x"), Call("f", <<>>),
     Node("tail", "", <<Read>>), HeadOf(IntLit),
     Node("list_literal", "", <<IntLit>>),
     Node("array_literal", "", <<IntLit, FloatLit>>)}
Assigned == {IntLit, Deref("y"), HeadOf(Read)}
Written  == {Deref("x"), Node("not_expr", "", <<IntLit>>), HeadOf(HeadOf(Read))}
Calls    == {Call(f, a) : f \in FuncNames, a \in {<<>>, <<IntLit>>}}

\* What a visit of an expression yields: the value returned as its type, the
\* messages it passed to _set_err_string (in order), and whether it raised
\* an exception (AttributeError, TypeError) instead of returning.
Returns(tn, errs)  == [tn |-> tn, errs |-> errs, exc |-> FALSE]
Raises(errs)    == [tn |-> PyNone, errs |-> errs, exc |-> TRUE]
\* `v.base` raises AttributeError unless v is a _Type
HasBase(v)     == IsType(v)

\* c is the result of visiting the children: [tns, errs, exc]
plus_expr(c) ==
    LET tn_lhs == c.tns[1]  tn_rhs == c.tns[2] IN
    IF PyNe(tn_lhs, tn_rhs)
    THEN Returns(tn_lhs, Append(c.errs, "Type of operands for operator + must be the same"))
    ELSE IF ~HasBase(tn_lhs) THEN Raises(c.errs)
    ELSE IF /\ BaseNe(tn_lhs.base, "FLOAT")
            /\ BaseNe(tn_lhs.base, "INT")
            /\ BaseNe(tn_lhs.base, "STRING")
    THEN Returns(tn_lhs, Append(c.errs,
             "Type of operands for operator + must be int, float or string"))
    ELSE Returns(tn_lhs, c.errs)

eq_expr(c) ==
    IF PyNe(c.tns[1], c.tns[2])
    THEN Returns(BOOL_T, Append(c.errs, "Type of operands for operator == must be the same"))
    ELSE Returns(BOOL_T, c.errs)

not_expr(c) ==
    LET tn == c.tns[1] IN
    IF ~HasBase(tn) THEN Raises(c.errs)
    ELSE IF BaseNe(tn.base, "BOOL")
    THEN Returns(BOOL_T, Append(c.errs, "Type of operand for operator ! must be bool"))
    ELSE Returns(BOOL_T, c.errs)

var_deref(e, c, V) ==
    IF Len(e.args) = 1
    THEN LET tn == c.tns[1] IN
         IF e.id \notin VarIds(V)
         THEN Returns(ANY_T, Append(c.errs, "Variable not in scope"))
         ELSE IF ~HasBase(VarGet(V, e.id)) THEN Raises(c.errs)
         ELSE IF BaseNe(VarGet(V, e.id).base, "ARRAY")
         THEN Returns(VarGet(V, e.id), Append(c.errs,
                  "Type of lhs operand for operator [] must be array"))
         ELSE IF ~HasBase(tn) THEN Raises(c.errs)
         ELSE IF BaseNe(tn.base, "INT")
         THEN Returns(VarGet(V, e.id), Append(c.errs,
                  "Type of rhs operand for operator [] must be int"))
         ELSE Returns(VarGet(V, e.id), c.errs)
    ELSE IF e.id \notin VarIds(V)
         THEN Returns(ANY_T, Append(c.errs, "Variable not in scope"))
         ELSE Returns(VarGet(V, e.id), c.errs)

\* the loop over zip(params, args): the first mismatch stages and breaks
ArgMismatch(params, args) ==
    \E i \in 1..Len(params) : PyNe(params[i], args[i])

func_call(e, c, FP, FR) ==
    IF e.id \notin DOMAIN FR
    THEN Returns(ANY_T, Append(c.errs, "Function not in scope"))
    ELSE IF Len(FP[e.id]) # Len(c.tns)
    THEN Returns(FR[e.id], Append(c.errs,
             "Number of function parameters and given arguments must match"))
    ELSE IF ArgMismatch(FP[e.id], c.tns)
    THEN Returns(FR[e.id], Append(c.errs, "Mismatched types in function call argument"))
    ELSE Returns(FR[e.id], c.errs)

head(c) ==
    LET tn == c.tns[1] IN
    IF ~HasBase(tn) THEN Raises(c.errs)
    ELSE IF BaseNe(tn.base, "LIST")
    THEN Returns(Typename(tn), Append(c.errs,
             "head() operations can be only be used on lists"))
    ELSE Returns(Typename(tn), c.errs)

tail(c) ==
    LET tn == c.tns[1] IN
    IF ~HasBase(tn) THEN Raises(c.errs)
    ELSE IF BaseNe(tn.base, "LIST")
    THEN Returns(tn, Append(c.errs, "tail() operations can be only be used on lists"))
    ELSE Returns(tn, c.errs)

\* one message for every later element that differs from the first
RECURSIVE Inhomogeneous(_, _, _)
Inhomogeneous(tn0, tns, msg) ==
    IF tns = <<>> THEN <<>>
    ELSE (IF PyNe(tn0, Head(tns)) THEN <<msg>> ELSE <<>>)
         \o Inhomogeneous(tn0, Tail(tns), msg)

list_literal(c) ==
    IF c.tns = <<>> THEN Returns(ListOf(ANY_T), c.errs)
    ELSE Returns(ListOf(c.tns[1]),
             c.errs \o Inhomogeneous(c.tns[1], Tail(c.tns),
                                     "Lists must have homogeneous types"))

\* the grammar of the spec gives an array literal at least one element
array_literal(c) ==
    Returns(ArrayOf(c.tns[1], Len(c.tns)),
        c.errs \o Inhomogeneous(c.tns[1], Tail(c.tns),
                                "Arrays must have homogeneous types"))

RECURSIVE Visit(_, _, _, _)
RECURSIVE VisitChildren(_, _, _, _)

\* the children visited in order; a child that raises ends the visit
VisitChildren(es, V, FP, FR) ==
    IF es = <<>> THEN [tns |-> <<>>, errs |-> <<>>, exc |-> FALSE]
    ELSE LET h == Visit(Head(es), V, FP, FR) IN
         IF h.exc THEN [tns |-> <<>>, errs |-> h.errs, exc |-> TRUE]
         ELSE LET t == VisitChildren(Tail(es), V, FP, FR) IN
              [tns |-> <<h.tn>> \o t.tns, errs |-> h.errs \o t.errs, exc |-> t.exc]

\* self.visit(expression)
Visit(e, V, FP, FR) ==
    LET c == VisitChildren(e.args, V, FP, FR) IN
    IF c.exc THEN Raises(c.errs)
    ELSE CASE e.k = "int_literal"   -> Returns(INT_T, <<>>)
           [] e.k = "float_literal" -> Returns(FLOAT_T, <<>>)
           [] e.k = "bool_literal"  -> Returns(BOOL_T, <<>>)
           [] e.k = "read"          -> Returns(ANY_T, <<>>)
           [] e.k = "list_literal"  -> list_literal(c)
           [] e.k = "array_literal" -> array_literal(c)
           [] e.k = "var_deref"     -> var_deref(e, c, V)
           [] e.k = "func_call"     -> func_call(e, c, FP, FR)
           [] e.k = "head"          -> head(c)
           [] e.k = "tail"          -> tail(c)
           [] e.k = "plus_expr"     -> plus_expr(c)
           [] e.k = "eq_expr"       -> eq_expr(c)
           [] e.k = "not_expr"      -> not_expr(c)

\* -------------------------------------------------------------------------
\* Spec: StaticAnalysisInterpreter visiting a unit
\* -------------------------------------------------------------------------
\* the types written in declarations (type, array_t, list_t)
DeclTypes == {INT_T, ArrayOf(INT_T, MaxArraySize)}
Absent == PyNone        \* a func_defn without `-> type`

EmptyDict == [k \in {} |-> PyNone]

\* bodies in which instructions are visited
Bodies == {"func_defn", "if_flow", "elif_flow", "else_flow", "unless_flow",
           "of_flow", "default_flow", "while_flow", "do_while_flow", "for_flow"}

Top       == visiting[Len(visiting)]
Pop       == SubSeq(visiting, 1, Len(visiting) - 1)
Retop(k)  == Append(Pop, k)
AtTop     == a_pc = "unit" /\ visiting = <<>>
In(k)     == a_pc = "unit" /\ visiting # <<>> /\ Top = k
InBody    == a_pc = "unit" /\ visiting # <<>> /\ Top \in Bodies
More      == nodes < MaxNodes
Deeper    == Len(visiting) < MaxDepth

AnalyzerIdle ==
    /\ _vars = <<>> /\ _fns_params = EmptyDict /\ _fns_ret_types = EmptyDict
    /\ _curr_fn = None /\ _num_of_vars_stack = <<>> /\ _num_of_new_vars = 0
    /\ _err_string = None /\ _has_errors = FALSE /\ _indent_str = 0
    /\ _html_buffer = Buffer(Line("", None), FALSE)
    /\ visiting = <<>> /\ a_pc = "idle" /\ nodes = 0
    /\ staged = <<>> /\ ever_staged = FALSE /\ top_declared = {}
    /\ loop_vars = <<>>

\* __init__, and the tree handed to transform()
AnalyzerInit ==
    /\ _vars = <<>> /\ _fns_params = EmptyDict /\ _fns_ret_types = EmptyDict
    /\ _curr_fn = None /\ _num_of_vars_stack = <<>> /\ _num_of_new_vars = 0
    /\ _err_string = None /\ _has_errors = FALSE /\ _indent_str = 0
    /\ _html_buffer = Buffer(Line("<pre>", None), FALSE)
    /\ visiting = <<>> /\ a_pc = "unit" /\ nodes = 0
    /\ staged = <<>> /\ ever_staged = FALSE /\ top_declared = {}
    /\ loop_vars = <<>>

\* Result of _new_scope / _end_scope: table, counter, stack, indentation
Scope(V, n, stack, ind) == [vars |-> V, n |-> n, stack |-> stack, indent |-> ind]

\* A variant of _new_scope that does not reset the counter.
NewScopeKeepsCounter(V, n, stack, ind) ==
    Scope(V, n, Append(stack, n), _indent(ind))

\* _new_scope
_new_scope(V, n, stack, ind) ==
    Scope(V, 0, Append(stack, n), _indent(ind))

\* A variant of _end_scope that pops one binding too few.
EndScopeKeepsOne(V, n, stack, ind) ==
    Scope(SubSeq(V, 1, Len(V) - (IF n > 0 THEN n - 1 ELSE 0)),
          stack[Len(stack)], SubSeq(stack, 1, Len(stack) - 1), _dedent(ind))

\* _end_scope: popitem() n times removes the n last bindings
_end_scope(V, n, stack, ind) ==
    Scope(SubSeq(V, 1, Len(V) - n),
          stack[Len(stack)], SubSeq(stack, 1, Len(stack) - 1), _dedent(ind))

NowScope == Scope(_vars, _num_of_new_vars, _num_of_vars_stack, _indent_str)
SetScope(sc) ==
    /\ _vars' = sc.vars
    /\ _num_of_new_vars' = sc.n
    /\ _num_of_vars_stack' = sc.stack
    /\ _indent_str' = sc.indent
SameScope == UNCHANGED <<_vars, _num_of_new_vars, _num_of_vars_stack, _indent_str>>
SameFns   == UNCHANGED <<_fns_params, _fns_ret_types, _curr_fn>>

NowSlot == Slot(_err_string, _has_errors)

\* The end of a visitor method that staged errs (in this order) and then
\* either flushed the line `code` or, with exc, raised before flushing.
Finish(errs, exc, code) ==
    LET s1 == SetAll(NowSlot, errs)
        fl == _flush_err_string(s1, code)
    IN  /\ staged' = errs
        /\ ever_staged' = (ever_staged \/ errs # <<>>)
        /\ IF exc
           THEN /\ _err_string' = s1.err_string
                /\ _has_errors' = s1.has_errors
                /\ _html_buffer' = _html_buffer
                /\ a_pc' = "raised"
           ELSE /\ _err_string' = fl.slot.err_string
                /\ _has_errors' = fl.slot.has_errors
                /\ _html_buffer' = BufWrite(_html_buffer, fl.line)
                /\ a_pc' = a_pc

\* self._html_buffer.write(...) of a line that is not flushed
WriteLine(code) ==
    /\ _html_buffer' = BufWrite(_html_buffer, Line(code, None))
    /\ staged' = <<>>
    /\ UNCHANGED <<_err_string, _has_errors, ever_staged, a_pc>>

V0  == _vars
FP0 == _fns_params
FR0 == _fns_ret_types

\* var_defn (a construct of the unit or an instruction of a body)
var_defn(x, T, e) ==
    /\ AtTop \/ InBody
    /\ More
    /\ LET a == _add_var(_vars, _num_of_new_vars, x, T)
           r == Visit(e, a.vars, FP0, FR0)
           m == IF ~r.exc /\ PyNe(r.tn, T) THEN <<"Mismatched types">> ELSE <<>>
       IN  /\ _vars' = a.vars
           /\ _num_of_new_vars' = a.n
           /\ top_declared' = IF visiting = <<>> /\ a.errs = <<>>
                              THEN top_declared \cup {x} ELSE top_declared
           /\ Finish(a.errs \o r.errs \o m, r.exc, "let")
    /\ nodes' = nodes + 1
    /\ UNCHANGED <<_num_of_vars_stack, _indent_str, visiting, loop_vars, tvars, mvars, gvars, lvars, ivars>>
    /\ SameFns

\* func_params: _add_var for every var_bind, in order
RECURSIVE func_params(_, _, _)
func_params(ps, V, n) ==
    IF ps = <<>> THEN Added(V, n, <<>>)
    ELSE LET a    == _add_var(V, n, Head(ps).id, Head(ps).tn)
             rest == func_params(Tail(ps), a.vars, a.n)
         IN  Added(rest.vars, rest.n, a.errs \o rest.errs)

\* the parameter lists written: up to MaxParams var_binds of type int
ParamLists ==
    UNION {[1..k -> {Binding(v, INT_T) : v \in VarNames}] : k \in 0..MaxParams}
ParamTypes(ps) == [i \in 1..Len(ps) |-> ps[i].tn]

\* A variant of func_defn that registers a function already defined again.
FuncDefnOverwrites(name, ps, rt) ==
    /\ AtTop /\ More
    /\ LET sc  == _new_scope(_vars, _num_of_new_vars, _num_of_vars_stack, _indent_str)
           a   == func_params(ps, sc.vars, sc.n)
           new == name \notin DOMAIN _fns_params
           e2  == IF new THEN <<>> ELSE <<"Function already defined">>
       IN  /\ SetScope(Scope(a.vars, a.n, sc.stack, sc.indent))
           /\ _fns_params' = (name :> ParamTypes(ps)) @@ _fns_params
           /\ _curr_fn' = IF new THEN name ELSE None
           /\ _fns_ret_types' =
                  (name :> (IF rt = Absent THEN VOID_T ELSE rt)) @@ _fns_ret_types
           /\ Finish(a.errs \o e2, FALSE, "fn")
    /\ visiting' = Append(visiting, "func_defn")
    /\ nodes' = nodes + 1
    /\ UNCHANGED <<top_declared, loop_vars, tvars, mvars, gvars, lvars, ivars>>

\* A variant of func_defn that leaves the return type unregistered while the
\* body is visited.
FuncDefnRegistersLate(name, ps, rt) ==
    /\ AtTop /\ More
    /\ LET sc  == _new_scope(_vars, _num_of_new_vars, _num_of_vars_stack, _indent_str)
           a   == func_params(ps, sc.vars, sc.n)
           new == name \notin DOMAIN _fns_params
           e2  == IF new THEN <<>> ELSE <<"Function already defined">>
       IN  /\ SetScope(Scope(a.vars, a.n, sc.stack, sc.indent))
           /\ _fns_params' = IF new THEN (name :> ParamTypes(ps)) @@ _fns_params
                             ELSE _fns_params
           /\ _curr_fn' = IF new THEN name ELSE None
           /\ _fns_ret_types' = _fns_ret_types
           /\ Finish(a.errs \o e2, FALSE, "fn")
    /\ visiting' = Append(visiting, "func_defn")
    /\ nodes' = nodes + 1
    /\ UNCHANGED <<top_declared, loop_vars, tvars, mvars, gvars, lvars, ivars>>

\* func_defn up to the flush of the header line; rt is the return type
\* written, or Absent
func_defn(name, ps, rt) ==
    /\ AtTop /\ More
    /\ LET sc  == _new_scope(_vars, _num_of_new_vars, _num_of_vars_stack, _indent_str)
           a   == func_params(ps, sc.vars, sc.n)
           new == name \notin DOMAIN _fns_params
           e2  == IF new THEN <<>> ELSE <<"Function already defined">>
       IN  /\ SetScope(Scope(a.vars, a.n, sc.stack, sc.indent))
           /\ _fns_params' = IF new THEN (name :> ParamTypes(ps)) @@ _fns_params
                             ELSE _fns_params
           /\ _curr_fn' = IF new THEN name ELSE None
           /\ _fns_ret_types' =
                  IF new THEN (name :> (IF rt = Absent THEN VOID_T ELSE rt))
                              @@ _fns_ret_types
                  ELSE _fns_ret_types
           /\ Finish(a.errs \o e2, FALSE, "fn")
    /\ visiting' = Append(visiting, "func_defn")
    /\ nodes' = nodes + 1
    /\ UNCHANGED <<top_declared, loop_vars, tvars, mvars, gvars, lvars, ivars>>

\* _end_scope() and the line that closes a body
CloseBody ==
    /\ SetScope(_end_scope(_vars, _num_of_new_vars, _num_of_vars_stack, _indent_str))
    /\ WriteLine("}")

\* func_defn after the instructions of the body
func_defn_end ==
    /\ In("func_defn")
    /\ _curr_fn' = None
    /\ CloseBody
    /\ visiting' = Pop
    /\ UNCHANGED <<_fns_params, _fns_ret_types, nodes, top_declared, loop_vars, tvars, mvars, gvars, lvars, ivars>>

\* the part shared by the instructions: they leave scopes, functions and
\* the open bodies as they are
Instruction ==
    /\ InBody /\ More
    /\ nodes' = nodes + 1
    /\ SameFns
    /\ UNCHANGED <<visiting, top_declared, loop_vars, tvars, mvars, gvars, lvars, ivars>>

\* ret with an expression
ret(e) ==
    /\ Instruction
    /\ SameScope
    /\ LET r == Visit(e, V0, FP0, FR0)
           m == IF ~r.exc /\ _curr_fn # None /\ PyNe(r.tn, _fns_ret_types[_curr_fn])
                THEN <<"Mismatched types in return statement">> ELSE <<>>
       IN  Finish(r.errs \o m, r.exc, "return e")

\* ret without an expression
ret_bare ==
    /\ Instruction
    /\ SameScope
    /\ LET m == IF _curr_fn # None /\ BaseNe("VOID", _fns_ret_types[_curr_fn].base)
                THEN <<"Mismatched types in return statement">> ELSE <<>>
       IN  Finish(m, FALSE, "return")

\* attrib, `var = e`
attrib(var, e) ==
    /\ Instruction
    /\ SameScope
    /\ LET r == Visit(e, V0, FP0, FR0)
           m == IF r.exc THEN <<>>
                ELSE IF var \notin VarIds(_vars) THEN <<"Variable not in scope">>
                ELSE IF PyNe(r.tn, VarGet(_vars, var))
                THEN <<"Mismatched types in assignment">>
                ELSE <<>>
       IN  Finish(r.errs \o m, r.exc, "attrib")

\* the checks of attrib, `var[i] = e`, after both expressions were visited:
\* the message staged, if any, and whether an attribute access or a
\* subscript raised
IndexedChecks(var, expr_tn, ind_tn, V) ==
    IF var \notin VarIds(V)
    THEN [errs |-> <<"Variable not in scope">>, exc |-> FALSE]
    ELSE LET t == VarGet(V, var) IN
         IF ~HasBase(t) THEN [errs |-> <<>>, exc |-> TRUE]
         ELSE IF BaseNe(t.base, "ARRAY")
         THEN [errs |-> <<"Type of lhs operand for operator [] must be array">>,
               exc |-> FALSE]
         ELSE IF Typename(t).py # "tuple" THEN [errs |-> <<>>, exc |-> TRUE]
         ELSE IF PyNe(expr_tn, Typename(t).items[1])
         THEN [errs |-> <<"Mismatched types in assignment">>, exc |-> FALSE]
         ELSE IF ~HasBase(ind_tn) THEN [errs |-> <<>>, exc |-> TRUE]
         ELSE IF BaseNe(ind_tn.base, "INT")
         THEN [errs |-> <<"Type of rhs operand for operator [] must be int">>,
               exc |-> FALSE]
         ELSE [errs |-> <<>>, exc |-> FALSE]

\* attrib, `var[i] = e`: e is visited first, then i
attrib_indexed(var, i, e) ==
    /\ Instruction
    /\ SameScope
    /\ LET c == VisitChildren(<<e, i>>, V0, FP0, FR0)
           k == IF c.exc THEN [errs |-> <<>>, exc |-> TRUE]
                ELSE IndexedChecks(var, c.tns[1], c.tns[2], _vars)
       IN  Finish(c.errs \o k.errs, k.exc, "attrib[]")

\* write
write(es) ==
    /\ Instruction
    /\ SameScope
    /\ LET c == VisitChildren(es, V0, FP0, FR0)
       IN  Finish(c.errs, c.exc, "write")

\* instruction whose child is a func_call: the call is visited and flushed
instruction(call) ==
    /\ Instruction
    /\ SameScope
    /\ LET r == Visit(call, V0, FP0, FR0)
       IN  Finish(r.errs, r.exc, "call")

\* the check of a condition: `tn.base != BOOL` on the value the visit gave
CondCheck(r) ==
    IF r.exc THEN [errs |-> r.errs, exc |-> TRUE]
    ELSE IF ~HasBase(r.tn) THEN [errs |-> r.errs, exc |-> TRUE]
    ELSE IF BaseNe(r.tn.base, "BOOL")
    THEN [errs |-> Append(r.errs, "Type of condition expression must be bool"),
          exc |-> FALSE]
    ELSE [errs |-> r.errs, exc |-> FALSE]

\* the part shared by the constructs that visit a condition, flush their
\* first line and open a scope for their body
OpenBody(k, code) ==
    /\ LET sc == _new_scope(_vars, _num_of_new_vars, _num_of_vars_stack, _indent_str)
       IN  IF k.exc THEN SameScope ELSE SetScope(sc)
    /\ Finish(k.errs, k.exc, code)
    /\ nodes' = nodes + 1
    /\ SameFns
    /\ UNCHANGED <<top_declared, loop_vars, tvars, mvars, gvars, lvars, ivars>>

\* the part shared by the ends of bodies
EndBody ==
    /\ CloseBody
    /\ SameFns
    /\ UNCHANGED <<nodes, top_declared, loop_vars, tvars, mvars, gvars, lvars, ivars>>

\* if_flow up to _new_scope()
if_flow(e) ==
    /\ InBody /\ More /\ Deeper
    /\ LET k == CondCheck(Visit(e, V0, FP0, FR0))
       IN  /\ OpenBody(k, "if")
           /\ visiting' = IF k.exc THEN visiting ELSE Append(visiting, "if_flow")

\* if_flow after the instructions of its body: the elif_flow and else_flow
\* children come next
if_flow_body_end ==
    /\ In("if_flow")
    /\ EndBody
    /\ visiting' = Retop("if_rest")

elif_flow(e) ==
    /\ In("if_rest") /\ More
    /\ LET k == CondCheck(Visit(e, V0, FP0, FR0))
       IN  /\ OpenBody(k, "elif")
           /\ visiting' = IF k.exc THEN visiting ELSE Retop("elif_flow")

elif_flow_end ==
    /\ In("elif_flow")
    /\ EndBody
    /\ visiting' = Retop("if_rest")

else_flow ==
    /\ In("if_rest") /\ More
    /\ SetScope(_new_scope(_vars, _num_of_new_vars, _num_of_vars_stack, _indent_str))
    /\ WriteLine("else")
    /\ nodes' = nodes + 1
    /\ SameFns
    /\ visiting' = Retop("else_flow")
    /\ UNCHANGED <<top_declared, loop_vars, tvars, mvars, gvars, lvars, ivars>>

\* else_flow is the last child of if_flow, which returns after it
else_flow_end ==
    /\ In("else_flow")
    /\ EndBody
    /\ visiting' = Pop

\* if_flow returns after its last elif_flow, or after its body
if_flow_end ==
    /\ In("if_rest")
    /\ visiting' = Pop
    /\ UNCHANGED <<avars_but_visiting, tvars, mvars, gvars, lvars, ivars>>

unless_flow(e) ==
    /\ InBody /\ More /\ Deeper
    /\ LET k == CondCheck(Visit(e, V0, FP0, FR0))
       IN  /\ OpenBody(k, "unless")
           /\ visiting' = IF k.exc THEN visiting ELSE Append(visiting, "unless_flow")

unless_flow_end ==
    /\ In("unless_flow")
    /\ EndBody
    /\ visiting' = Pop

while_flow(e) ==
    /\ InBody /\ More /\ Deeper
    /\ LET k == CondCheck(Visit(e, V0, FP0, FR0))
       IN  /\ OpenBody(k, "while")
           /\ visiting' = IF k.exc THEN visiting ELSE Append(visiting, "while_flow")

while_flow_end ==
    /\ In("while_flow")
    /\ EndBody
    /\ visiting' = Pop

\* case_flow up to _new_scope()
case_flow(e) ==
    /\ InBody /\ More /\ Deeper
    /\ LET r == Visit(e, V0, FP0, FR0)
           k == IF r.exc \/ ~HasBase(r.tn) THEN [errs |-> r.errs, exc |-> TRUE]
                ELSE IF BaseNe(r.tn.base, "INT") /\ BaseNe(r.tn.base, "STRING")
                THEN [errs |-> Append(r.errs,
                                  "Type of case expression must be int or string"),
                      exc |-> FALSE]
                ELSE [errs |-> r.errs, exc |-> FALSE]
       IN  /\ OpenBody(k, "case")
           /\ visiting' = IF k.exc THEN visiting ELSE Append(visiting, "case_flow")

\* of_flow: its literal stages nothing; the line is written, not flushed
of_flow ==
    /\ In("case_flow") /\ More
    /\ SetScope(_new_scope(_vars, _num_of_new_vars, _num_of_vars_stack, _indent_str))
    /\ WriteLine("of")
    /\ nodes' = nodes + 1
    /\ SameFns
    /\ visiting' = Retop("of_flow")
    /\ UNCHANGED <<top_declared, loop_vars, tvars, mvars, gvars, lvars, ivars>>

of_flow_end ==
    /\ In("of_flow")
    /\ EndBody
    /\ visiting' = Retop("case_flow")

\* default_flow is the last child of every case_flow
default_flow ==
    /\ In("case_flow")
    /\ SetScope(_new_scope(_vars, _num_of_new_vars, _num_of_vars_stack, _indent_str))
    /\ WriteLine("default")
    /\ SameFns
    /\ visiting' = Retop("default_flow")
    /\ UNCHANGED <<nodes, top_declared, loop_vars, tvars, mvars, gvars, lvars, ivars>>

\* the end of default_flow, and then the end of case_flow: each calls
\* _end_scope() and writes its closing line
default_flow_end ==
    /\ In("default_flow")
    /\ LET s1 == _end_scope(_vars, _num_of_new_vars, _num_of_vars_stack, _indent_str)
           s2 == _end_scope(s1.vars, s1.n, s1.stack, s1.indent)
       IN  SetScope(s2)
    /\ WriteLine("}")
    /\ SameFns
    /\ visiting' = Pop
    /\ UNCHANGED <<nodes, top_declared, loop_vars, tvars, mvars, gvars, lvars, ivars>>

\* do_while_flow up to _new_scope()
do_while_flow ==
    /\ InBody /\ More /\ Deeper
    /\ SetScope(_new_scope(_vars, _num_of_new_vars, _num_of_vars_stack, _indent_str))
    /\ WriteLine("do")
    /\ nodes' = nodes + 1
    /\ SameFns
    /\ visiting' = Append(visiting, "do_while_flow")
    /\ UNCHANGED <<top_declared, loop_vars, tvars, mvars, gvars, lvars, ivars>>

\* do_while_flow after its body: the condition is visited in the scope of
\* the body, then _end_scope(), then the flush
do_while_flow_end(e) ==
    /\ In("do_while_flow")
    /\ LET k == CondCheck(Visit(e, V0, FP0, FR0))
       IN  /\ IF k.exc THEN SameScope
              ELSE SetScope(_end_scope(_vars, _num_of_new_vars,
                                       _num_of_vars_stack, _indent_str))
           /\ Finish(k.errs, k.exc, "} while")
           /\ visiting' = IF k.exc THEN visiting ELSE Pop
    /\ SameFns
    /\ UNCHANGED <<nodes, top_declared, loop_vars, tvars, mvars, gvars, lvars, ivars>>

\* a variant of the binding in for_flow that gives the variable of a loop over
\* an array the typename of the array, not its first item
ForBindWholeTypename(x, tn, V, n) ==
    IF ~HasBase(tn) THEN [a |-> Added(V, n, <<>>), exc |-> TRUE]
    ELSE IF BaseEq(tn.base, "ARRAY") \/ BaseEq(tn.base, "LIST")
    THEN [a |-> _add_var(V, n, x, Typename(tn)), exc |-> FALSE]
    ELSE [a |-> Added(V, n, <<"Type of expression must iterable">>), exc |-> FALSE]

\* the binding of the induction variable in for_flow: the result of _add_var,
\* or the message staged, or a raise (`.base` of a value that is no _Type,
\* `typename[0]` of a typename that is None)
ForBind(x, tn, V, n) ==
    IF ~HasBase(tn) THEN [a |-> Added(V, n, <<>>), exc |-> TRUE]
    ELSE IF BaseEq(tn.base, "ARRAY")
    THEN IF Typename(tn).py # "tuple" THEN [a |-> Added(V, n, <<>>), exc |-> TRUE]
         ELSE [a |-> _add_var(V, n, x, Typename(tn).items[1]), exc |-> FALSE]
    ELSE IF BaseEq(tn.base, "LIST")
    THEN [a |-> _add_var(V, n, x, Typename(tn)), exc |-> FALSE]
    ELSE [a |-> Added(V, n, <<"Type of expression must iterable">>), exc |-> FALSE]

\* what a for_flow call is remembered by: the variable and the type of the
\* elements when the variable was free and the iterable is an array or a list
NoLoopVar == [id |-> "", fresh |-> FALSE, tn |-> PyNone]
LoopVar(x, tn, V) ==
    IF x \in VarIds(V) \/ ~IsType(tn) THEN NoLoopVar
    ELSE IF tn.base = "ARRAY" /\ Typename(tn).py = "tuple"
    THEN [id |-> x, fresh |-> TRUE, tn |-> Typename(tn).items[1]]
    ELSE IF tn.base = "LIST"
    THEN [id |-> x, fresh |-> TRUE, tn |-> Typename(tn)]
    ELSE NoLoopVar

\* for_flow up to the flush of its first line: _new_scope() comes first
for_flow(x, e) ==
    /\ InBody /\ More /\ Deeper
    /\ LET sc == _new_scope(_vars, _num_of_new_vars, _num_of_vars_stack, _indent_str)
           r  == Visit(e, sc.vars, FP0, FR0)
           b  == IF r.exc THEN [a |-> Added(sc.vars, sc.n, <<>>), exc |-> TRUE]
                 ELSE ForBind(x, r.tn, sc.vars, sc.n)
       IN  /\ SetScope(Scope(b.a.vars, b.a.n, sc.stack, sc.indent))
           /\ Finish(r.errs \o b.a.errs, b.exc, "for")
           /\ visiting' = IF b.exc THEN visiting ELSE Append(visiting, "for_flow")
           /\ loop_vars' = IF b.exc THEN loop_vars
                            ELSE Append(loop_vars, LoopVar(x, r.tn, sc.vars))
    /\ nodes' = nodes + 1
    /\ SameFns
    /\ UNCHANGED <<top_declared, tvars, mvars, gvars, lvars, ivars>>

for_flow_end ==
    /\ In("for_flow")
    /\ CloseBody
    /\ SameFns
    /\ visiting' = Pop
    /\ loop_vars' = SubSeq(loop_vars, 1, Len(loop_vars) - 1)
    /\ UNCHANGED <<nodes, top_declared, tvars, mvars, gvars, lvars, ivars>>

\* the unit has been visited: get_html()
get_html ==
    /\ AtTop
    /\ a_pc' = "done"
    /\ _html_buffer' = BufWrite(_html_buffer, Line("</pre>", None))
    /\ staged' = <<>>
    /\ UNCHANGED <<_vars, _fns_params, _fns_ret_types, _curr_fn, _num_of_vars_stack,
                   _num_of_new_vars, _err_string, _has_errors, _indent_str,
                   visiting, nodes, ever_staged, top_declared, loop_vars, tvars, mvars, gvars, lvars, ivars>>

AnalyzerNext ==
    \/ \E x \in VarNames, T \in DeclTypes, e \in Initializers : var_defn(x, T, e)
    \/ \E name \in FuncNames, ps \in ParamLists, rt \in DeclTypes \cup {Absent} :
           func_defn(name, ps, rt)
    \/ func_defn_end
    \/ \E e \in Returned : ret(e)
    \/ ret_bare
    \/ \E var \in VarNames, e \in Assigned : attrib(var, e)
    \/ \E var \in VarNames, i \in {IntLit, BoolLit}, e \in Assigned :
           attrib_indexed(var, i, e)
    \/ \E e \in Written : write(<<e>>)
    \/ \E call \in Calls : instruction(call)
    \/ \E e \in Conditions : if_flow(e)
    \/ if_flow_body_end
    \/ \E e \in Conditions : elif_flow(e)
    \/ elif_flow_end
    \/ else_flow
    \/ else_flow_end
    \/ if_flow_end
    \/ \E e \in Conditions : unless_flow(e)
    \/ unless_flow_end
    \/ \E e \in Conditions : while_flow(e)
    \/ while_flow_end
    \/ \E e \in Conditions : case_flow(e)
    \/ of_flow
    \/ of_flow_end
    \/ default_flow
    \/ default_flow_end
    \/ do_while_flow
    \/ \E e \in Conditions : do_while_flow_end(e)
    \/ \E x \in VarNames, e \in Iterables : for_flow(x, e)
    \/ for_flow_end
    \/ get_html

\* -------------------------------------------------------------------------
\* SpecMain: main() over the files named in sys.argv[1:]
\* -------------------------------------------------------------------------
\* What a file does to _gen_outputs is decided by its text:
\*   "parse_failure" : parser.parse raises UnexpectedCharacters / GrammarError
\*   "errors"        : it parses and has_errors() is true
\*   "clean"         : it parses and has_errors() is false
\*   "raises"        : the analyzer raises (see a_pc = "raised"); the
\*                     exception is not caught by _gen_outputs nor by main
FileKinds == {"parse_failure", "errors", "clean", "raises"}

\* _gen_outputs: the status returned, the text written to log, the files
\* dumped into out/, and whether an exception leaves the function
_gen_outputs(base_fn, kind) ==
    CASE kind = "parse_failure" ->
             [status |-> 3, log |-> <<base_fn>>, out |-> {}, exc |-> FALSE]
      [] kind = "errors" ->
             [status |-> 2, log |-> <<>>, out |-> {<<base_fn, "html">>}, exc |-> FALSE]
      [] kind = "clean" ->
             [status |-> 0, log |-> <<>>,
              out |-> {<<base_fn, "html">>, <<base_fn, "graphs">>}, exc |-> FALSE]
      [] kind = "raises" ->
             [status |-> 0, log |-> <<>>, out |-> {}, exc |-> TRUE]

MainIdle ==
    /\ argv = <<>> /\ m_i = 0 /\ m_status = 0 /\ err_log = <<>>
    /\ written = {} /\ m_pc = "idle" /\ m_exit = None

MainInit ==
    /\ argv \in UNION {[1..n -> FileKinds] : n \in 0..MaxFiles}
    /\ m_i = 1 /\ m_status = 0 /\ err_log = <<>>
    /\ written = {} /\ m_pc = "start" /\ m_exit = None

UsageStatus == 1

\* `if len(sys.argv) == 1: return 1`
main_usage ==
    /\ m_pc = "start" /\ argv = <<>>
    /\ m_exit' = UsageStatus
    /\ m_pc' = "returned"
    /\ UNCHANGED <<argv, m_i, m_status, err_log, written, tvars, avars, gvars, lvars, ivars>>

\* out/ is made, the parser built, status = 0
main_setup ==
    /\ m_pc = "start" /\ argv # <<>>
    /\ m_status' = 0
    /\ m_pc' = "loop"
    /\ UNCHANGED <<argv, m_i, err_log, written, m_exit, tvars, avars, gvars, lvars, ivars>>

\* `if (curr_status := _gen_outputs(...)) != 0: status = curr_status`
NextStatus(status, curr_status) ==
    IF curr_status # 0 THEN curr_status ELSE status

\* open('err.log', 'w'): the file is truncated
OpenLog(log) == <<>>

\* one iteration of `for fn in sys.argv[1:]`
main_file ==
    /\ m_pc = "loop" /\ m_i <= Len(argv)
    /\ LET g == _gen_outputs(m_i, argv[m_i])
       IN  /\ err_log' = OpenLog(err_log) \o g.log
           /\ written' = written \cup g.out
           /\ m_status' = IF g.exc THEN m_status ELSE NextStatus(m_status, g.status)
           /\ m_pc' = IF g.exc THEN "raised" ELSE "loop"
    /\ m_i' = m_i + 1
    /\ UNCHANGED <<argv, m_exit, tvars, avars, gvars, lvars, ivars>>

\* `return status`
main_return ==
    /\ m_pc = "loop" /\ m_i > Len(argv)
    /\ m_exit' = m_status
    /\ m_pc' = "returned"
    /\ UNCHANGED <<argv, m_i, m_status, err_log, written, tvars, avars, gvars, lvars, ivars>>

MainNext == main_usage \/ main_setup \/ main_file \/ main_return

\* -------------------------------------------------------------------------
\* The graph builders (src/graphs.py).  A pydot graph is the list of the
\* nodes added to it, the list of the edges added to it and the list of its
\* subgraphs; an id that is None in the code is NoId here.
\* -------------------------------------------------------------------------
NoId == 0

GraphFuncNames == {"f", "g"}

Dot == [nodes |-> <<>>, edges |-> <<>>, subgraphs |-> <<>>]

\* pydot.Node(f'node{node_id}', label=..., shape=...): the kind stands for the
\* label and the shape; the annotation node carries the number of its label
GNode(node_id, kind) == [id |-> node_id, kind |-> kind, label |-> 0]
Annotation(k)        == [id |-> NoId, kind |-> "complex", label |-> k]

\* pydot.Edge(f'node{parent}', f'node{child}') with its attributes
Edge(src, dst, color, style, label) ==
    [src |-> src, dst |-> dst, color |-> color, style |-> style, label |-> label]

Put(d, k, v) == [n \in DOMAIN d \cup {k} |-> IF n = k THEN v ELSE d[n]]

\* ---- CFGraphInterpreter ---------------------------------------------------
CFGraphInterpreter ==
    [node_id |-> 0, parent_id |-> NoId, edge_color |-> None,
     is_dead_edge |-> FALSE, is_fn_scope |-> FALSE,
     fn_to_graph |-> [n \in {} |-> Dot], curr_fn |-> ""]

CFG_next_id(c) == [c EXCEPT !.node_id = @ + 1]

CFG_add_node(c, node_id, kind) ==
    [c EXCEPT !.fn_to_graph[c.curr_fn].nodes = Append(@, GNode(node_id, kind))]

\* the variant of _add_edge that leaves _is_dead_edge set
CfgAddEdgeKeepsDeadFlag(c, child_id) ==
    IF c.parent_id = NoId THEN c
    ELSE [c EXCEPT !.fn_to_graph[c.curr_fn].edges =
              Append(@, IF c.is_dead_edge
                        THEN Edge(c.parent_id, child_id, "gray", "dashed", "dead code!")
                        ELSE Edge(c.parent_id, child_id, c.edge_color, None, None))]

CFG_add_edge(c, child_id) ==
    IF c.parent_id = NoId THEN c
    ELSE [c EXCEPT !.fn_to_graph[c.curr_fn].edges =
              Append(@, IF c.is_dead_edge
                        THEN Edge(c.parent_id, child_id, "gray", "dashed", "dead code!")
                        ELSE Edge(c.parent_id, child_id, c.edge_color, None, None)),
                   !.is_dead_edge = FALSE]

\* the variant of _compute_mccabes_complexity that counts the annotation's
\* future node too
ComplexityCountsAnnotation(graph) == Len(graph.edges) - (Len(graph.nodes) + 1) + 2

\* len(graph.get_edges()) - len(graph.get_nodes()) + 2: get_nodes() lists the
\* nodes added to the graph itself, not those of its subgraphs
_compute_mccabes_complexity(graph) ==
    Len(graph.edges) - Len(graph.nodes) + 2

WithColor(c, color)  == [c EXCEPT !.edge_color = color]
WithParent(c, id)    == [c EXCEPT !.parent_id = id]

\* this_id = _next_id(); _add_node(this_id, ...); _add_edge(this_id)
CFG_emit(c, kind) ==
    LET c1 == CFG_next_id(c)
    IN  CFG_add_edge(CFG_add_node(c1, c1.node_id, kind), c1.node_id)

\* ... followed by  _parent_id = this_id
CFG_enter(c, kind) ==
    LET c1 == CFG_emit(c, kind) IN WithParent(c1, c1.node_id)

\* dummy_id = _next_id(); _add_node(dummy_id, '<end ...>', 'diamond', 'gray')
CFG_dummy(c, kind) ==
    LET c1 == CFG_next_id(c) IN CFG_add_node(c1, c1.node_id, kind)

\* the variant of func_defn that does not make the signature the parent
CfgFuncDefnKeepsParent(c, name) ==
    LET c1 == [c EXCEPT !.curr_fn = name,
                        !.fn_to_graph = Put(c.fn_to_graph, name, Dot),
                        !.is_fn_scope = TRUE]
        c2 == CFG_next_id(c1)
    IN  CFG_add_node(c2, c2.node_id, "signature")

CFG_func_defn(c, name) ==
    LET c1 == [c EXCEPT !.curr_fn = name,
                        !.fn_to_graph = Put(c.fn_to_graph, name, Dot),
                        !.is_fn_scope = TRUE]
        c2 == CFG_next_id(c1)
    IN  CFG_add_node(WithParent(c2, c2.node_id), c2.node_id, "signature")

CFG_func_defn_end(c) ==
    LET c1 == CFG_dummy(c, "end fn")
        c2 == CFG_add_edge(c1, c1.node_id)
        k  == _compute_mccabes_complexity(c2.fn_to_graph[c2.curr_fn])
    IN  [c2 EXCEPT !.fn_to_graph[c2.curr_fn].nodes = Append(@, Annotation(k)),
                   !.is_fn_scope = FALSE]

\* the variant of var_defn without the test of _is_fn_scope
CfgVarDefnAnywhere(c) ==
    IF c.curr_fn = "" THEN CFG_next_id(c)
    ELSE WithColor(CFG_enter(c, "var_defn"), None)

CFG_var_defn(c) ==
    IF ~c.is_fn_scope THEN c
    ELSE WithColor(CFG_enter(c, "var_defn"), None)

CFG_ret(c) ==
    LET c1 == CFG_emit(c, "ret")
    IN  [c1 EXCEPT !.edge_color = None, !.is_dead_edge = TRUE,
                   !.parent_id = c1.node_id]

CFG_attrib(c) == WithColor(CFG_enter(c, "attrib"), None)

CFG_write(c)  == WithColor(CFG_enter(c, "write"), None)

\* if_flow up to the first instruction of its body
CFG_if_flow(c) == WithColor(CFG_enter(c, "if"), "green")

\* if_flow from the end of its body to the first elif / else
CFG_if_flow_body_end(c) ==
    LET c1 == CFG_dummy(c, "end if") IN CFG_add_edge(c1, c1.node_id)

\* the head of one turn of the loop over the elif / else children
CFG_if_flow_arm(c, this_id) == WithParent(WithColor(c, "red"), this_id)

\* the branch of if_flow taken when it has no elif / else child
CFG_if_flow_no_arm(c, this_id, dummy_id) ==
    CFG_add_edge(WithParent(WithColor(c, "red"), this_id), dummy_id)

CFG_if_flow_end(c, dummy_id) == WithParent(WithColor(c, None), dummy_id)

CFG_elif_flow(c) == WithColor(CFG_enter(c, "elif"), "green")

\* else_flow after each instruction of its body
CFG_else_flow_step(c) == WithColor(c, None)

CFG_unless_flow(c) == WithColor(CFG_enter(c, "unless"), "red")

CFG_unless_flow_end(c, this_id) ==
    LET c1 == CFG_dummy(c, "end unless")
        c2 == CFG_add_edge(c1, c1.node_id)
        c3 == CFG_add_edge(WithParent(WithColor(c2, "green"), this_id), c1.node_id)
    IN  WithParent(WithColor(c3, None), c1.node_id)

\* case_flow up to its first child
CFG_case_flow(c) ==
    CFG_dummy(WithColor(CFG_enter(c, "case"), None), "end case")

CFG_of_flow(c)      == CFG_enter(c, "of")

CFG_default_flow(c) == CFG_enter(c, "default")

CFG_while_flow(c) == WithColor(CFG_enter(c, "while"), "green")

\* the variant of the end of while_flow / for_flow without the back edge
CfgLoopEndWithoutBackEdge(c, this_id, kind) ==
    LET c2 == CFG_dummy(c, kind)
        c3 == CFG_add_edge(WithColor(WithParent(c2, this_id), "red"), c2.node_id)
    IN  WithParent(WithColor(c3, None), c2.node_id)

CFG_while_flow_end(c, this_id, kind) ==
    LET c1 == CFG_add_edge(c, this_id)
        c2 == CFG_dummy(c1, kind)
        c3 == CFG_add_edge(WithColor(WithParent(c2, this_id), "red"), c2.node_id)
    IN  WithParent(WithColor(c3, None), c2.node_id)

CFG_do_while_flow(c) ==
    LET c1 == CFG_dummy(c, "begin do-while")
    IN  WithParent(CFG_add_edge(c1, c1.node_id), c1.node_id)

CFG_do_while_flow_end(c, dummy_id) ==
    LET c1 == WithColor(CFG_enter(c, "do-while"), "green")
    IN  WithColor(CFG_add_edge(c1, dummy_id), "red")

CFG_for_flow(c) == WithColor(CFG_enter(c, "for"), "green")

\* ---- SDGraphInterpreter ---------------------------------------------------
SDGraphInterpreter ==
    [node_id |-> 0, parent_id |-> NoId, is_dead_code |-> FALSE,
     is_fn_scope |-> FALSE, fn_to_graph |-> [n \in {} |-> Dot], curr_fn |-> "",
     curr_subgraph |-> <<>>]

SDG_next_id(s) == [s EXCEPT !.node_id = @ + 1]

\* the variant of _add_node that never uses the subgraph
SdgAddNodeIgnoresFlag(s, node_id, kind) ==
    [s EXCEPT !.fn_to_graph[s.curr_fn].nodes = Append(@, GNode(node_id, kind))]

SDG_add_node(s, node_id, kind) ==
    IF s.is_dead_code
    THEN [s EXCEPT !.curr_subgraph = Append(@, GNode(node_id, kind))]
    ELSE [s EXCEPT !.fn_to_graph[s.curr_fn].nodes = Append(@, GNode(node_id, kind))]

SDG_add_edge(s, child_id) ==
    IF s.parent_id = NoId THEN s
    ELSE [s EXCEPT !.fn_to_graph[s.curr_fn].edges =
              Append(@, Edge(s.parent_id, child_id, None, None, None))]

\* this_id = _next_id(); _add_node(this_id, ...); _add_edge(this_id)
SDG_emit(s, kind) ==
    LET s1 == SDG_next_id(s)
    IN  SDG_add_edge(SDG_add_node(s1, s1.node_id, kind), s1.node_id)

SDG_compute_mccabes_complexity(graph) == Len(graph.edges) - Len(graph.nodes) + 2

SDG_func_defn(s, name) ==
    LET s1 == [s EXCEPT !.curr_fn = name,
                        !.fn_to_graph = Put(s.fn_to_graph, name, Dot),
                        !.curr_subgraph = <<>>,
                        !.is_fn_scope = TRUE]
        s2 == SDG_next_id(s1)
    IN  SDG_add_node([s2 EXCEPT !.parent_id = s2.node_id], s2.node_id, "signature")

SDG_func_defn_end(s) ==
    LET s1 == [s EXCEPT !.fn_to_graph[s.curr_fn].subgraphs = Append(@, s.curr_subgraph),
                        !.is_fn_scope = FALSE,
                        !.is_dead_code = FALSE]
        k  == SDG_compute_mccabes_complexity(s1.fn_to_graph[s1.curr_fn])
    IN  [s1 EXCEPT !.fn_to_graph[s1.curr_fn].nodes = Append(@, Annotation(k))]

SDG_var_defn(s) == IF ~s.is_fn_scope THEN s ELSE SDG_emit(s, "var_defn")

\* instruction, for a func_call child (the only child whose visit returns a
\* non-empty value)
SDG_instruction(s) == SDG_emit(s, "func_call")

SDG_ret(s)    == [SDG_emit(s, "ret") EXCEPT !.is_dead_code = TRUE]

SDG_attrib(s) == SDG_emit(s, "attrib")

SDG_write(s)  == SDG_emit(s, "write")

\* if_flow / elif_flow / while_flow / for_flow up to the body
SDG_if_flow(s)   == LET s1 == SDG_emit(s, "if")   IN [s1 EXCEPT !.parent_id = s1.node_id]

SDG_elif_flow(s) == LET s1 == SDG_emit(s, "elif") IN [s1 EXCEPT !.parent_id = s1.node_id]

SDG_loop(s, kind) ==
    LET s1 == SDG_emit(s, kind)
    IN  SDG_add_edge([s1 EXCEPT !.parent_id = s1.node_id], s1.node_id)

SDG_while_flow(s) == SDG_loop(s, "while")

SDG_for_flow(s)   == SDG_loop(s, "for")

\* the end of if_flow's body, of elif_flow, of else_flow and of loop_flow:
\* the values saved on entry are put back
SDG_restore(s, old_parent_id, is_dead_code) ==
    [s EXCEPT !.parent_id = old_parent_id, !.is_dead_code = is_dead_code]

\* ---- the two builders visiting the same tree --------------------------------
\* main() gives the tree of a file to a CFGraphInterpreter and to an
\* SDGraphInterpreter (src/main.py:61-65).  Neither reads the other's state, so
\* the model lets them visit each node of the tree together: one action per
\* visitor method, applying the CFG method to cfg and the SDG method to sdg.
\* A block construct has one action for the part of its method before the body
\* and one for the part after; the locals that the two methods keep across the
\* body (this_id, dummy_id, old_parent_id, is_dead_code) are in its frame.
\*
\* A frame also records what the tree says about the block, independently of
\* the builders: dead_in (the block is nested in a statement that follows a
\* return of its own block) and ret_seen (a return of this block was visited).
Frame(k, c_this, c_dummy, s) ==
    [k |-> k, c_this |-> c_this, c_dummy |-> c_dummy,
     s_old_parent |-> s.parent_id, s_dead |-> s.is_dead_code,
     s_skip   |-> IF g_stack = <<>> THEN FALSE ELSE g_stack[Len(g_stack)].s_skip,
     dead_in  |-> IF g_stack = <<>> THEN FALSE
                  ELSE g_stack[Len(g_stack)].dead_in \/ g_stack[Len(g_stack)].ret_seen,
     ret_seen |-> FALSE, arms |-> FALSE]

\* the frame of a construct whose SDG method is `pass`: the SDG builder visits
\* nothing below it
Unvisited(frame) == [frame EXCEPT !.s_skip = TRUE]

GBodies == {"func_defn", "if_flow", "elif_flow", "else_flow", "unless_flow",
            "of_flow", "default_flow", "while_flow", "do_while_flow", "for_flow"}

GTop     == g_stack[Len(g_stack)]
GPop(n)  == SubSeq(g_stack, 1, Len(g_stack) - n)
GIn(k)   == g_pc = "unit" /\ g_stack # <<>> /\ GTop.k = k
GInBody  == g_pc = "unit" /\ g_stack # <<>> /\ GTop.k \in GBodies
GMore    == g_count < MaxStmts
GDeeper  == Len(g_stack) < MaxFrames
LexDead  == g_stack # <<>> /\ (GTop.dead_in \/ GTop.ret_seen)
Skipped  == g_stack # <<>> /\ GTop.s_skip

\* what the method that visited the enclosing block does after each child:
\* else_flow resets the edge color, the others do nothing
AfterChild(k, c) == IF k = "else_flow" THEN CFG_else_flow_step(c) ELSE c

\* the entry of g_stmts for the node of the tree just visited
Stmt(kind, c, s) ==
    [kind |-> kind, lex_dead |-> LexDead,
     c_node |-> IF c.node_id > cfg.node_id THEN cfg.node_id + 1 ELSE NoId,
     s_node |-> IF s.node_id > sdg.node_id THEN sdg.node_id + 1 ELSE NoId]

GraphsIdle ==
    /\ cfg = CFGraphInterpreter /\ sdg = SDGraphInterpreter
    /\ g_stack = <<>> /\ g_pc = "idle" /\ g_count = 0 /\ g_stmts = <<>>

GraphsInit ==
    /\ cfg = CFGraphInterpreter /\ sdg = SDGraphInterpreter
    /\ g_stack = <<>> /\ g_pc = "unit" /\ g_count = 0 /\ g_stmts = <<>>

\* an instruction without a body, visited by c2 == CFG method, s2 == SDG method
Visited(kind, c2, s2) ==
    /\ GInBody /\ GMore
    /\ cfg' = AfterChild(GTop.k, c2)
    /\ sdg' = IF Skipped THEN sdg ELSE s2
    /\ g_count' = g_count + 1
    /\ g_stmts' = Append(g_stmts, Stmt(kind, c2, IF Skipped THEN sdg ELSE s2))
    /\ UNCHANGED <<g_pc, tvars, avars, mvars, lvars, ivars>>

\* a construct with a body, entered
Entered(kind, c2, s2, frame) ==
    /\ GMore /\ GDeeper
    /\ cfg' = c2
    /\ sdg' = IF Skipped THEN sdg ELSE s2
    /\ g_stack' = Append(g_stack, frame)
    /\ g_count' = g_count + 1
    /\ g_stmts' = Append(g_stmts, Stmt(kind, c2, IF Skipped THEN sdg ELSE s2))
    /\ UNCHANGED <<g_pc, tvars, avars, mvars, lvars, ivars>>

\* the construct whose frames are the n topmost, left
Left(n, c2, s2) ==
    /\ cfg' = IF Len(g_stack) > n THEN AfterChild(g_stack[Len(g_stack) - n].k, c2) ELSE c2
    /\ sdg' = IF Skipped THEN sdg ELSE s2
    /\ g_stack' = GPop(n)
    /\ UNCHANGED <<g_pc, g_count, g_stmts, tvars, avars, mvars, lvars, ivars>>

G_func_defn(name) ==
    /\ g_pc = "unit" /\ g_stack = <<>> /\ GMore
    /\ cfg' = CFG_func_defn(cfg, name)
    /\ sdg' = SDG_func_defn(sdg, name)
    /\ g_stack' = <<Frame("func_defn", cfg.node_id + 1, NoId, sdg)>>
    /\ g_count' = g_count + 1
    /\ g_stmts' = <<Stmt("signature", CFG_func_defn(cfg, name),
                                SDG_func_defn(sdg, name))>>
    /\ UNCHANGED <<g_pc, tvars, avars, mvars, lvars, ivars>>

G_func_defn_end ==
    /\ GIn("func_defn")
    /\ Left(1, CFG_func_defn_end(cfg), SDG_func_defn_end(sdg))

\* construct -> var_defn at the top level, instruction -> var_defn in a body
G_var_defn ==
    IF g_stack = <<>>
    THEN /\ g_pc = "unit" /\ GMore
         /\ cfg' = CFG_var_defn(cfg)
         /\ sdg' = SDG_var_defn(sdg)
         /\ g_count' = g_count + 1
         /\ UNCHANGED <<g_stack, g_pc, g_stmts, tvars, avars, mvars, lvars, ivars>>
    ELSE /\ Visited("var_defn", CFG_var_defn(cfg), SDG_var_defn(sdg))
         /\ UNCHANGED g_stack

G_ret ==
    /\ Visited("ret", CFG_ret(cfg), SDG_ret(sdg))
    /\ g_stack' = [g_stack EXCEPT ![Len(g_stack)].ret_seen = TRUE]

G_attrib ==
    /\ Visited("attrib", CFG_attrib(cfg), SDG_attrib(sdg))
    /\ UNCHANGED g_stack

G_write ==
    /\ Visited("write", CFG_write(cfg), SDG_write(sdg))
    /\ UNCHANGED g_stack

\* instruction -> func_call ";"
G_instruction ==
    /\ Visited("func_call", cfg, SDG_instruction(sdg))
    /\ UNCHANGED g_stack

G_if_flow ==
    /\ GInBody
    /\ Entered("if", CFG_if_flow(cfg), SDG_if_flow(sdg),
               Frame("if_flow", cfg.node_id + 1, NoId, sdg))

\* the instructions of the if are over: <end if> and the restoring of the SDG
\* fields; the elif / else children follow
G_if_flow_body_end ==
    /\ GIn("if_flow")
    /\ cfg' = CFG_if_flow_body_end(cfg)
    /\ sdg' = IF Skipped THEN sdg ELSE SDG_restore(sdg, GTop.s_old_parent, GTop.s_dead)
    /\ g_stack' = [g_stack EXCEPT ![Len(g_stack)] =
                      [@ EXCEPT !.k = "if_rest", !.c_dummy = cfg'.node_id,
                                !.ret_seen = FALSE]]
    /\ UNCHANGED <<g_pc, g_count, g_stmts, tvars, avars, mvars, lvars, ivars>>

G_elif_flow ==
    /\ GIn("if_rest")
    /\ Entered("elif", CFG_elif_flow(CFG_if_flow_arm(cfg, GTop.c_this)),
               SDG_elif_flow(sdg),
               Frame("elif_flow", cfg.node_id + 1, NoId, sdg))

G_elif_flow_end ==
    /\ GIn("elif_flow")
    /\ cfg' = CFG_add_edge(cfg, g_stack[Len(g_stack) - 1].c_dummy)
    /\ sdg' = IF Skipped THEN sdg ELSE SDG_restore(sdg, GTop.s_old_parent, GTop.s_dead)
    /\ g_stack' = [GPop(1) EXCEPT ![Len(g_stack) - 1] =
                      [@ EXCEPT !.c_this = GTop.c_this, !.arms = TRUE]]
    /\ UNCHANGED <<g_pc, g_count, g_stmts, tvars, avars, mvars, lvars, ivars>>

G_else_flow ==
    /\ GIn("if_rest") /\ GMore /\ GDeeper
    /\ cfg' = CFG_if_flow_arm(cfg, GTop.c_this)
    /\ g_stack' = Append(g_stack, Frame("else_flow", NoId, NoId, sdg))
    /\ g_count' = g_count + 1
    /\ UNCHANGED <<sdg, g_pc, g_stmts, tvars, avars, mvars, lvars, ivars>>

\* the else is the last child of the if: else_flow returns and if_flow ends
G_else_flow_end ==
    /\ GIn("else_flow")
    /\ LET dummy_id == g_stack[Len(g_stack) - 1].c_dummy
       IN  Left(2, CFG_if_flow_end(CFG_add_edge(cfg, dummy_id), dummy_id),
                SDG_restore(sdg, GTop.s_old_parent, GTop.s_dead))

\* if_flow ends after its last elif, or without any elif / else
G_if_flow_end ==
    /\ GIn("if_rest")
    /\ Left(1, CFG_if_flow_end(IF GTop.arms THEN cfg
                               ELSE CFG_if_flow_no_arm(cfg, GTop.c_this, GTop.c_dummy),
                               GTop.c_dummy),
            sdg)

G_unless_flow ==
    /\ GInBody
    /\ Entered("unless", CFG_unless_flow(cfg), sdg,
               Unvisited(Frame("unless_flow", cfg.node_id + 1, NoId, sdg)))

G_unless_flow_end ==
    /\ GIn("unless_flow")
    /\ Left(1, CFG_unless_flow_end(cfg, GTop.c_this), sdg)

G_case_flow ==
    /\ GInBody
    /\ Entered("case", CFG_case_flow(cfg), sdg,
               Unvisited(Frame("case_flow", cfg.node_id + 1, cfg.node_id + 2, sdg)))

G_of_flow ==
    /\ GIn("case_flow")
    /\ Entered("of", CFG_of_flow(WithParent(cfg, GTop.c_this)), sdg,
               Frame("of_flow", cfg.node_id + 1, NoId, sdg))

G_of_flow_end ==
    /\ GIn("of_flow")
    /\ cfg' = CFG_add_edge(cfg, g_stack[Len(g_stack) - 1].c_dummy)
    /\ g_stack' = GPop(1)
    /\ UNCHANGED <<sdg, g_pc, g_count, g_stmts, tvars, avars, mvars, lvars, ivars>>

\* the default is the mandatory last child of a case (src/ipl.py:117): it is
\* part of the case counted when the case was entered
G_default_flow ==
    /\ GIn("case_flow") /\ GDeeper
    /\ cfg' = CFG_default_flow(WithParent(cfg, GTop.c_this))
    /\ g_stack' = Append(g_stack, Frame("default_flow", cfg.node_id + 1, NoId, sdg))
    /\ g_stmts' = Append(g_stmts,
                         Stmt("default", CFG_default_flow(WithParent(cfg, GTop.c_this)), sdg))
    /\ UNCHANGED <<sdg, g_pc, g_count, tvars, avars, mvars, lvars, ivars>>

\* the default is the last child of the case: default_flow returns and
\* case_flow ends
G_default_flow_end ==
    /\ GIn("default_flow")
    /\ LET dummy_id == g_stack[Len(g_stack) - 1].c_dummy
       IN  Left(2, WithParent(CFG_add_edge(cfg, dummy_id), dummy_id), sdg)

G_while_flow ==
    /\ GInBody
    /\ Entered("while", CFG_while_flow(cfg), SDG_while_flow(sdg),
               Frame("while_flow", cfg.node_id + 1, NoId, sdg))

G_while_flow_end ==
    /\ GIn("while_flow")
    /\ Left(1, CFG_while_flow_end(cfg, GTop.c_this, "end while"),
            SDG_restore(sdg, GTop.s_old_parent, GTop.s_dead))

G_do_while_flow ==
    /\ GInBody
    /\ Entered("begin do-while", CFG_do_while_flow(cfg), sdg,
               Unvisited(Frame("do_while_flow", NoId, cfg.node_id + 1, sdg)))

G_do_while_flow_end ==
    /\ GIn("do_while_flow")
    /\ cfg' = IF Len(g_stack) > 1
              THEN AfterChild(g_stack[Len(g_stack) - 1].k,
                              CFG_do_while_flow_end(cfg, GTop.c_dummy))
              ELSE CFG_do_while_flow_end(cfg, GTop.c_dummy)
    /\ g_stack' = GPop(1)
    /\ g_stmts' = Append(g_stmts,
           [Stmt("do-while", CFG_do_while_flow_end(cfg, GTop.c_dummy), sdg)
               EXCEPT !.lex_dead = GTop.dead_in])
    /\ UNCHANGED <<sdg, g_pc, g_count, tvars, avars, mvars, lvars, ivars>>

G_for_flow ==
    /\ GInBody
    /\ Entered("for", CFG_for_flow(cfg), SDG_for_flow(sdg),
               Frame("for_flow", cfg.node_id + 1, NoId, sdg))

G_for_flow_end ==
    /\ GIn("for_flow")
    /\ Left(1, CFG_while_flow_end(cfg, GTop.c_this, "end for"),
            SDG_restore(sdg, GTop.s_old_parent, GTop.s_dead))

GraphsNext ==
    \/ \E name \in GraphFuncNames : G_func_defn(name)
    \/ G_func_defn_end
    \/ G_var_defn
    \/ G_ret
    \/ G_attrib
    \/ G_write
    \/ G_instruction
    \/ G_if_flow
    \/ G_if_flow_body_end
    \/ G_elif_flow
    \/ G_elif_flow_end
    \/ G_else_flow
    \/ G_else_flow_end
    \/ G_if_flow_end
    \/ G_unless_flow
    \/ G_unless_flow_end
    \/ G_case_flow
    \/ G_of_flow
    \/ G_of_flow_end
    \/ G_default_flow
    \/ G_default_flow_end
    \/ G_while_flow
    \/ G_while_flow_end
    \/ G_do_while_flow
    \/ G_do_while_flow_end
    \/ G_for_flow
    \/ G_for_flow_end

\* -------------------------------------------------------------------------
\* The links of the function headers (src/main.py:76-113).  A name and a piece
\* of a line are sequences of characters.  A line of the listing that begins
\* with "fn " is [href, wrapped, text]: `fn <a href="graphs_BASE_{href}.html">
\* {wrapped}</a>{text}`, or `fn {text}` when href is empty (no link yet).
\* -------------------------------------------------------------------------
FnNames == {<<"f">>, <<"f", "o">>, <<"f", "o", "o">>, <<"g">>}

\* the header that func_defn writes when no error is staged:
\* f'fn {name}{params_code}{type_code}{{', params_code beginning with "("
Header(name) == [href |-> <<>>, wrapped |-> <<>>, text |-> name \o <<"(">>]

IsPrefix(p, t) == Len(p) <= Len(t) /\ SubSeq(t, 1, Len(p)) = p

\* re.sub(f'^fn {func_name}', f'fn <a href="...{func_name}.html">{func_name}</a>',
\*        html_str, flags=re.MULTILINE), on one line
SubLine(line, func_name) ==
    IF line.href = <<>> /\ IsPrefix(func_name, line.text)
    THEN [href |-> func_name, wrapped |-> func_name,
          text |-> SubSeq(line.text, Len(func_name) + 1, Len(line.text))]
    ELSE line

re_sub(html_str, func_name) ==
    [k \in 1..Len(html_str) |-> SubLine(html_str[k], func_name)]

\* the definition orders of distinct function names
Orders ==
    {o \in UNION {[1..n -> FnNames] : n \in 1..MaxFns} :
        \A i, j \in 1..Len(o) : i # j => o[i] # o[j]}

LinksIdle ==
    /\ l_names = <<>> /\ l_html = <<>> /\ l_i = 0 /\ l_pc = "idle"

\* an error-free listing and the pairs of get_func_name_graph_pairs(), a dict
\* in the order of insertion
LinksInit ==
    /\ l_names \in Orders
    /\ l_html = [k \in 1..Len(l_names) |-> Header(l_names[k])]
    /\ l_i = 0
    /\ l_pc = "loop"

\* one turn of `for (func_name, cfgraph), (_, sdgraph) in func_name_graphs_pairs`
link_header ==
    /\ l_pc = "loop" /\ l_i < Len(l_names)
    /\ l_html' = re_sub(l_html, l_names[l_i + 1])
    /\ l_i' = l_i + 1
    /\ UNCHANGED <<l_names, l_pc, tvars, avars, mvars, gvars, ivars>>

\* _dump_to_file(html_fn, html_str)
dump_listing ==
    /\ l_pc = "loop" /\ l_i = Len(l_names)
    /\ l_pc' = "done"
    /\ UNCHANGED <<l_names, l_html, l_i, tvars, avars, mvars, gvars, ivars>>

LinksNext == link_header \/ dump_listing

\* -------------------------------------------------------------------------
\* The scopes of IplInterpreter (src/ipl.py).  Its _new_scope, _add_var,
\* _indent and _dedent are, line for line, those of StaticAnalysisInterpreter
\* and are the operators above; its variable table holds the bindings of the
\* `let`s and of the parameters, all of type int here.  The listing and the
\* error slot of IplInterpreter are not part of this model.
\* -------------------------------------------------------------------------
\* _end_scope of IplInterpreter: popitem() raises KeyError on an empty dict
\* and pop() raises IndexError on an empty list
ipl_end_scope(V, n, stack, ind) ==
    IF n > Len(V)
    THEN [sc |-> Scope(<<>>, n, stack, ind), exc |-> TRUE]
    ELSE IF stack = <<>>
    THEN [sc |-> Scope(SubSeq(V, 1, Len(V) - n), n, stack, ind), exc |-> TRUE]
    ELSE [sc |-> _end_scope(V, n, stack, ind), exc |-> FALSE]

IplScope == Scope(ipl_vars, ipl_num_of_new_vars, ipl_num_of_vars_stack, ipl_indent_str)
SetIplScope(sc) ==
    /\ ipl_vars' = sc.vars
    /\ ipl_num_of_new_vars' = sc.n
    /\ ipl_num_of_vars_stack' = sc.stack
    /\ ipl_indent_str' = sc.indent
SameIplScope ==
    UNCHANGED <<ipl_vars, ipl_num_of_new_vars, ipl_num_of_vars_stack, ipl_indent_str>>

\* a visitor method that has not returned: `before` is the scope when it was
\* called, `arms` the number of elif_flow / else_flow children it has visited
IplFrame(k, before, arms, else_seen) ==
    [k |-> k, before |-> before, arms |-> arms, else_seen |-> else_seen]
NoIf == [returned |-> FALSE, before |-> Scope(<<>>, 0, <<>>, 0), arms |-> 0]

IplTop    == ipl_visiting[Len(ipl_visiting)]
IplPop    == SubSeq(ipl_visiting, 1, Len(ipl_visiting) - 1)
IplAtTop  == ipl_pc = "unit" /\ ipl_visiting = <<>>
IplIn(k)  == ipl_pc = "unit" /\ ipl_visiting # <<>> /\ IplTop.k = k
\* the instructions of an if_flow come before its elif_flow / else_flow children
IplInBody ==
    /\ ipl_pc = "unit" /\ ipl_visiting # <<>>
    /\ \/ IplTop.k \in {"func_defn", "elif_flow", "else_flow"}
       \/ IplTop.k = "if_flow" /\ IplTop.arms = 0
IplMore   == ipl_nodes < MaxIplNodes
IplDeeper == Len(ipl_visiting) < MaxIplDepth

IplIdle ==
    /\ ipl_vars = <<>> /\ ipl_num_of_new_vars = 0 /\ ipl_num_of_vars_stack = <<>>
    /\ ipl_indent_str = 0 /\ ipl_visiting = <<>> /\ ipl_pc = "idle"
    /\ ipl_nodes = 0 /\ ipl_if_left = NoIf

\* IplInterpreter.__init__
IplInit ==
    /\ ipl_vars = <<>> /\ ipl_num_of_new_vars = 0 /\ ipl_num_of_vars_stack = <<>>
    /\ ipl_indent_str = 0 /\ ipl_visiting = <<>> /\ ipl_pc = "unit"
    /\ ipl_nodes = 0 /\ ipl_if_left = NoIf

\* the end of a method that calls _end_scope() last: it returns or raises
IplLeave(e) ==
    /\ SetIplScope(e.sc)
    /\ ipl_pc' = IF e.exc THEN "raised" ELSE ipl_pc
    /\ ipl_visiting' = IF e.exc THEN ipl_visiting ELSE IplPop

ipl_var_defn(x) ==
    /\ IplAtTop \/ IplInBody
    /\ IplMore
    /\ LET a == _add_var(ipl_vars, ipl_num_of_new_vars, x, INT_T)
       IN  /\ ipl_vars' = a.vars
           /\ ipl_num_of_new_vars' = a.n
    /\ ipl_nodes' = ipl_nodes + 1
    /\ ipl_if_left' = NoIf
    /\ UNCHANGED <<ipl_num_of_vars_stack, ipl_indent_str, ipl_visiting, ipl_pc,
                   tvars, avars, mvars, gvars, lvars>>

\* func_defn up to the first instruction of its body: _new_scope(), then
\* func_params calls _add_var for every parameter
ipl_func_defn(params) ==
    /\ IplAtTop /\ IplMore
    /\ LET sc == _new_scope(ipl_vars, ipl_num_of_new_vars, ipl_num_of_vars_stack,
                            ipl_indent_str)
           a  == IF params = <<>> THEN Added(sc.vars, sc.n, <<>>)
                 ELSE _add_var(sc.vars, sc.n, params[1], INT_T)
       IN  SetIplScope(Scope(a.vars, a.n, sc.stack, sc.indent))
    /\ ipl_visiting' = Append(ipl_visiting, IplFrame("func_defn", IplScope, 0, FALSE))
    /\ ipl_nodes' = ipl_nodes + 1
    /\ ipl_if_left' = NoIf
    /\ UNCHANGED <<ipl_pc, tvars, avars, mvars, gvars, lvars>>

\* func_defn after the instructions of its body
ipl_func_defn_end ==
    /\ IplIn("func_defn")
    /\ IplLeave(ipl_end_scope(ipl_vars, ipl_num_of_new_vars, ipl_num_of_vars_stack,
                              ipl_indent_str))
    /\ ipl_if_left' = NoIf
    /\ UNCHANGED <<ipl_nodes, tvars, avars, mvars, gvars, lvars>>

\* if_flow up to the first of its children: the condition, then _new_scope()
ipl_if_flow ==
    /\ IplInBody /\ IplMore /\ IplDeeper
    /\ SetIplScope(_new_scope(ipl_vars, ipl_num_of_new_vars, ipl_num_of_vars_stack,
                              ipl_indent_str))
    /\ ipl_visiting' = Append(ipl_visiting, IplFrame("if_flow", IplScope, 0, FALSE))
    /\ ipl_nodes' = ipl_nodes + 1
    /\ ipl_if_left' = NoIf
    /\ UNCHANGED <<ipl_pc, tvars, avars, mvars, gvars, lvars>>

\* a turn of the loop of if_flow for a child that is no instruction:
\* _end_scope(), the line of the brace, and visit(c) up to the first
\* instruction of the body of c, which begins with _new_scope()
IplArm(k) ==
    /\ IplIn("if_flow") /\ ~IplTop.else_seen
    /\ IplMore /\ IplDeeper
    /\ LET e == ipl_end_scope(ipl_vars, ipl_num_of_new_vars, ipl_num_of_vars_stack,
                              ipl_indent_str)
       IN  IF e.exc
           THEN /\ SetIplScope(e.sc)
                /\ ipl_pc' = "raised"
                /\ UNCHANGED ipl_visiting
           ELSE /\ SetIplScope(_new_scope(e.sc.vars, e.sc.n, e.sc.stack, e.sc.indent))
                /\ ipl_pc' = ipl_pc
                /\ ipl_visiting' =
                       Append(Append(IplPop, IplFrame("if_flow", IplTop.before,
                                                      IplTop.arms + 1, k = "else_flow")),
                              IplFrame(k, IplScope, 0, FALSE))
    /\ ipl_nodes' = ipl_nodes + 1
    /\ ipl_if_left' = NoIf

ipl_elif_flow ==
    /\ IplArm("elif_flow")
    /\ UNCHANGED <<tvars, avars, mvars, gvars, lvars>>

ipl_else_flow ==
    /\ IplArm("else_flow")
    /\ UNCHANGED <<tvars, avars, mvars, gvars, lvars>>

\* elif_flow / else_flow after the instructions of the body
IplArmEnd(k) ==
    /\ IplIn(k)
    /\ IplLeave(ipl_end_scope(ipl_vars, ipl_num_of_new_vars, ipl_num_of_vars_stack,
                              ipl_indent_str))
    /\ ipl_if_left' = NoIf

ipl_elif_flow_end ==
    /\ IplArmEnd("elif_flow")
    /\ UNCHANGED <<ipl_nodes, tvars, avars, mvars, gvars, lvars>>

ipl_else_flow_end ==
    /\ IplArmEnd("else_flow")
    /\ UNCHANGED <<ipl_nodes, tvars, avars, mvars, gvars, lvars>>

\* the loop of if_flow has no child left: if_flow returns
ipl_if_flow_end ==
    /\ IplIn("if_flow")
    /\ ipl_visiting' = IplPop
    /\ ipl_if_left' = [returned |-> TRUE, before |-> IplTop.before, arms |-> IplTop.arms]
    /\ SameIplScope
    /\ UNCHANGED <<ipl_pc, ipl_nodes, tvars, avars, mvars, gvars, lvars>>

\* unit after its last construct
ipl_unit ==
    /\ IplAtTop
    /\ ipl_pc' = "done"
    /\ ipl_if_left' = NoIf
    /\ SameIplScope
    /\ UNCHANGED <<ipl_visiting, ipl_nodes, tvars, avars, mvars, gvars, lvars>>

IplNext ==
    \/ \E x \in VarNames : ipl_var_defn(x)
    \/ \E params \in {<<>>, <<"x">>} : ipl_func_defn(params)
    \/ ipl_func_defn_end
    \/ ipl_if_flow
    \/ ipl_elif_flow
    \/ ipl_elif_flow_end
    \/ ipl_else_flow
    \/ ipl_else_flow_end
    \/ ipl_if_flow_end
    \/ ipl_unit

\* -------------------------------------------------------------------------
\* Specifications
\* -------------------------------------------------------------------------
Init      == TypesIdle /\ AnalyzerInit /\ MainIdle /\ GraphsIdle /\ LinksIdle /\ IplIdle
Next      == AnalyzerNext
Spec      == Init /\ [][Next]_vars

InitTypes == TypesInit /\ AnalyzerIdle /\ MainIdle /\ GraphsIdle /\ LinksIdle /\ IplIdle
NextTypes == TypeEquals
SpecTypes == InitTypes /\ [][NextTypes]_vars

InitMain  == TypesIdle /\ AnalyzerIdle /\ MainInit /\ GraphsIdle /\ LinksIdle /\ IplIdle
NextMain  == MainNext
SpecMain  == InitMain /\ [][NextMain]_vars

InitGraphs == TypesIdle /\ AnalyzerIdle /\ MainIdle /\ GraphsInit /\ LinksIdle /\ IplIdle
NextGraphs == GraphsNext
SpecGraphs == InitGraphs /\ [][NextGraphs]_vars

InitLinks == TypesIdle /\ AnalyzerIdle /\ MainIdle /\ GraphsIdle /\ LinksInit /\ IplIdle
NextLinks == LinksNext
SpecLinks == InitLinks /\ [][NextLinks]_vars

InitIpl ==
    TypesIdle /\ AnalyzerIdle /\ MainIdle /\ GraphsIdle /\ LinksIdle /\ IplInit
NextIpl == IplNext
SpecIpl == InitIpl /\ [][NextIpl]_vars

\* -------------------------------------------------------------------------
\* Properties
\* -------------------------------------------------------------------------
\* Equality of Types as the documentation words it: Any is equal to every
\* Type on either side; otherwise the bases are the same and the parameters
\* are recursively equal.
RECURSIVE StructEq(_, _)
StructEq(a, b) ==
    CASE a.py = "_Type" ->
             /\ b.py = "_Type"
             /\ \/ a.base = "ANY" \/ b.base = "ANY"
                \/ a.base = b.base /\ StructEq(Typename(a), Typename(b))
      [] a.py = "None"  -> b.py = "None"
      [] a.py = "int"   -> b.py = "int" /\ a.val = b.val
      [] a.py = "tuple" -> /\ b.py = "tuple"
                           /\ Len(a.items) = Len(b.items)
                           /\ \A i \in 1..Len(a.items) :
                                  StructEq(a.items[i], b.items[i])

MsgNext(m)  == \E i \in 1..Len(staged') : staged'[i] = m
First(msgs) == IF msgs = <<>> THEN None ELSE msgs[1]

\* C1: for two Types neither of which has base Any, _Type.__eq__ answers
\* True only if the bases are the same and the parameters are recursively
\* equal; two primitive Types of different bases are never equal.
C1_EqualityIsStructural ==
    (/\ eq_pc = "ret"
     /\ eq_self.base # "ANY" /\ eq_rhs.base # "ANY"
     /\ eq_ret = TRUE)
        => /\ eq_self.base = eq_rhs.base
           /\ StructEq(Typename(eq_self), Typename(eq_rhs))

\* C2: in a registered function, `return e;` with e of a type that differs
\* from the declared return type, and `return;` where the return type is
\* not Void, stage 'Mismatched types in return statement' and make
\* has_errors true.
C2_ReturnMismatchStaged ==
    [][/\ \A e \in Returned :
              LET r == Visit(e, V0, FP0, FR0) IN
              (/\ ret(e) /\ _curr_fn # None /\ ~r.exc /\ IsType(r.tn)
               /\ ~StructEq(r.tn, _fns_ret_types[_curr_fn]))
                  => /\ MsgNext("Mismatched types in return statement")
                     /\ _has_errors'
       /\ (/\ ret_bare /\ _curr_fn # None
           /\ _fns_ret_types[_curr_fn].base # "VOID")
              => /\ MsgNext("Mismatched types in return statement")
                 /\ _has_errors'
      ]_vars

\* C3: for `let x: T = e`, if the type of e is not equal to T then
\* 'Mismatched types' is staged for the line; if it is equal and nothing
\* else is violated the line is written without an error.
C3_LetMismatchStaged ==
    [][\A x \in VarNames, T \in DeclTypes, e \in Initializers :
           LET a == _add_var(_vars, _num_of_new_vars, x, T)
               r == Visit(e, a.vars, FP0, FR0)
           IN  (var_defn(x, T, e) /\ ~r.exc /\ IsType(r.tn))
                  => /\ ~StructEq(r.tn, T) => MsgNext("Mismatched types")
                     /\ (StructEq(r.tn, T) /\ a.errs = <<>> /\ r.errs = <<>>)
                            => _html_buffer'.last = Line("let", None)
      ]_vars

\* C4: in `let x: T = e` with x bound in no open scope, a dereference of x
\* in e stages 'Variable not in scope'.
C4_InitializerBeforeDeclaration ==
    [][\A x \in VarNames, T \in DeclTypes, e \in Initializers :
           (/\ var_defn(x, T, e)
            /\ e.k = "var_deref" /\ e.id = x
            /\ x \notin VarIds(_vars))
               => MsgNext("Variable not in scope")
      ]_vars

\* C5: when a complete unit has been visited, the variable table holds
\* exactly the top-level variables whose declaration succeeded, and the
\* stack of scope counters is empty.
C5_ScopeDiscipline ==
    a_pc = "done" =>
        /\ VarIds(_vars) = top_declared
        /\ Len(_vars) = Cardinality(top_declared)
        /\ _num_of_vars_stack = <<>>

\* a unit with a function that has a parameter or nested declarations, a
\* successful top-level `let` and an error, visited to its end
C5_Witness ==
    /\ a_pc = "done" /\ nodes = MaxNodes
    /\ top_declared # {} /\ VarIds(_vars) = top_declared
    /\ "f" \in DOMAIN _fns_params /\ _fns_params["f"] # <<>>
    /\ _has_errors

\* C6: has_errors starts false, never goes from true back to false, and is
\* at every point true exactly if _set_err_string has been called since the
\* analyzer was created.
C6_ErrorGateMonotone ==
    /\ ~_has_errors
    /\ [](_has_errors <=> ever_staged)
    /\ [][_has_errors => _has_errors']_vars

\* has_errors stays true after a later line that staged nothing
C6_Witness ==
    /\ a_pc = "unit" /\ nodes >= 2
    /\ _has_errors /\ ever_staged /\ staged = <<>> /\ _err_string = None

\* C7: the slot holds the first message staged since the previous flush,
\* the flushed line carries exactly that message, and the slot is empty
\* after every flush.
C7_FirstErrorWins ==
    /\ a_pc \in {"unit", "done"} =>
           /\ _err_string = None
           /\ _html_buffer.last.err = First(staged)
    /\ a_pc = "raised" => _err_string = First(staged)

\* a line for which two different messages were staged carries the first
C7_Witness ==
    /\ a_pc = "unit"
    /\ Len(staged) >= 2 /\ staged[1] # staged[2]
    /\ _html_buffer.last.err = staged[1]
    /\ _err_string = None

\* the largest status _gen_outputs returned for a file of argv
WorstStatus ==
    LET S == {_gen_outputs(i, argv[i]).status : i \in 1..Len(argv)}
    IN  CHOOSE m \in S : \A n \in S : n <= m

\* C8: the exit code main returns is the largest per-file status over all
\* input files, whatever their order: 3 if a file failed to parse, else 2
\* if a file had semantic errors, else 0.
C8_ExitCodeIsWorstStatus ==
    (m_pc = "returned" /\ argv # <<>>) => m_exit = WorstStatus

\* C9: after a run, err.log holds a record for every input file that
\* failed to parse, the files before the last one included.
C9_ErrLogKeepsEveryFailure ==
    (m_pc = "returned" /\ argv # <<>>) =>
        \A i \in 1..Len(argv) :
            argv[i] = "parse_failure" =>
                \E j \in 1..Len(err_log) : err_log[j] = i

\* C10: the analyzer finishes the traversal of every unit, never leaving a
\* visitor method by an exception.
C10_AnalyzerNeverRaises ==
    a_pc # "raised"

\* the calls whose type is examined: no argument, one int, one value that is
\* no _Type (the None that head gives for read())
CallsExamined ==
    {Call(f, a) : f \in FuncNames, a \in {<<>>, <<IntLit>>, <<HeadOf(Read)>>}}

\* C11: a call expression has the called function's return type only when
\* the call is error-free; when the function is not in scope, the number of
\* arguments differs or an argument mismatches, its type is Any.
C11_CallWithErrorIsAny ==
    a_pc = "unit" =>
        \A call \in CallsExamined :
            LET c == VisitChildren(call.args, V0, FP0, FR0)
                r == func_call(call, c, FP0, FR0)
            IN  (~c.exc /\ r.errs # c.errs) => r.tn = ANY_T

\* C12: `x[i]` with x bound to array<T, N> and i of type int has the element
\* type T (not the array type), so that `x[0] + 1` with x: array<int, N>
\* stages no error.
C12_IndexedDerefIsElement ==
    a_pc = "unit" =>
        \A x \in VarIds(_vars) :
            LET t == VarGet(_vars, x)
                r == Visit(Elem(x), V0, FP0, FR0)
                s == Visit(Node("plus_expr", "", <<Elem(x), IntLit>>), V0, FP0, FR0)
            IN  (IsType(t) /\ t.base = "ARRAY") =>
                    /\ ~r.exc /\ r.tn = Typename(t).items[1]
                    /\ (Typename(t).items[1] = INT_T => (~s.exc /\ s.errs = <<>>))

Staged(m) == \E i \in 1..Len(staged) : staged[i] = m

\* C13: a function definition that names a function already in the function
\* table stages 'Function already defined' on its header line and leaves the
\* parameter types and the return type stored for the first definition as
\* they are.
C13_NoRedefinition ==
    [][\A name \in FuncNames, ps \in ParamLists, rt \in DeclTypes \cup {Absent} :
           (func_defn(name, ps, rt) /\ name \in DOMAIN _fns_params)
               => /\ MsgNext("Function already defined")
                  /\ _html_buffer'.last.code = "fn"
                  /\ _html_buffer'.last.err # None
                  /\ _has_errors'
                  /\ _fns_params' = _fns_params
                  /\ _fns_ret_types' = _fns_ret_types
      ]_vars

\* the header of a second definition of f, with other parameters than the
\* first, has just been flushed with the message
C13_Witness ==
    /\ a_pc = "unit" /\ visiting = <<"func_defn">> /\ _curr_fn = None
    /\ Staged("Function already defined")
    /\ _html_buffer.last = Line("fn", "Function already defined")
    /\ "f" \in DOMAIN _fns_params
    /\ Len(_fns_params["f"]) # _num_of_new_vars

\* a call of f with as many int arguments as f has parameters
MatchingCall(f) == Call(f, [i \in 1..Len(_fns_params[f]) |-> IntLit])

\* C14: while the body of a function is visited the function is in both
\* tables, so that a call of it with matching arguments stages no error and
\* has its return type; a call of a function not yet defined stages
\* 'Function not in scope'.
C14_RegisteredBeforeBody ==
    a_pc = "unit" =>
        /\ (visiting # <<>> /\ _curr_fn # None) =>
               /\ _curr_fn \in DOMAIN _fns_params
               /\ _curr_fn \in DOMAIN _fns_ret_types
               /\ LET r == Visit(MatchingCall(_curr_fn), V0, FP0, FR0)
                  IN  ~r.exc /\ r.errs = <<>> /\ r.tn = _fns_ret_types[_curr_fn]
        /\ \A f \in FuncNames \ DOMAIN _fns_ret_types :
               \A call \in {Call(f, <<>>), Call(f, <<IntLit>>)} :
                   Visit(call, V0, FP0, FR0).errs = <<"Function not in scope">>

\* in the body of f, after a top-level `let` and an error, a call has just
\* been flushed without a message
C14_Witness ==
    /\ a_pc = "unit" /\ visiting = <<"func_defn">> /\ _curr_fn = "f"
    /\ _html_buffer.last = Line("call", None)
    /\ top_declared # {} /\ _html_buffer.errdiv

\* C15: declaring a name that is bound in some open scope stages 'Variable
\* already defined' and leaves the variable table and the counter of the
\* current scope as they are; otherwise the binding is appended and the
\* counter grows by exactly one.  (A step of var_defn is a step that visits
\* one more node and either writes the `let` line or raises.)
C15_DeclareOnce ==
    [][\A x \in VarNames, T \in DeclTypes :
           (/\ nodes' = nodes + 1
            /\ a_pc' = "raised" \/ _html_buffer'.last.code = "let"
            /\ \E e \in Initializers : var_defn(x, T, e)) =>
               IF x \in VarIds(_vars)
               THEN /\ MsgNext("Variable already defined")
                    /\ _vars' = _vars
                    /\ _num_of_new_vars' = _num_of_new_vars
               ELSE /\ _vars' = Append(_vars, Binding(x, T))
                    /\ _num_of_new_vars' = _num_of_new_vars + 1
      ]_vars

\* in a function body with no binding of its own, a `let` of a name that is
\* bound at top level has just been refused
C15_Witness ==
    /\ a_pc = "unit" /\ visiting = <<"func_defn">>
    /\ _html_buffer.last = Line("let", "Variable already defined")
    /\ _num_of_new_vars = 0 /\ _num_of_vars_stack = <<1>>
    /\ Len(_vars) = 1 /\ VarIds(_vars) = top_declared

\* C16: for every file that parses, the listing is written, with or without
\* semantic errors; graphs are written only with status 0, and with semantic
\* errors there is no graph and the status is 2.  For a file that fails to
\* parse neither is written, the status is 3, and the files after it are
\* still processed.
C16_OutputsPerFile ==
    m_pc \in {"loop", "returned", "raised"} =>
        \A i \in 1..(m_i - 1) :
            LET g == _gen_outputs(i, argv[i]) IN
            /\ argv[i] # "parse_failure" => <<i, "html">> \in written
            /\ <<i, "graphs">> \in written => (g.status = 0 /\ argv[i] = "clean")
            /\ argv[i] = "clean" => <<i, "graphs">> \in written
            /\ argv[i] = "errors" => g.status = 2
            /\ argv[i] = "parse_failure" =>
                   /\ g.status = 3
                   /\ <<i, "html">> \notin written
                   /\ <<i, "graphs">> \notin written
                   /\ m_pc # "raised"
\* -------------------------------------------------------------------------
\* The graphs (SpecGraphs)
\* -------------------------------------------------------------------------
NodesOf(graph, kinds) == {i \in 1..Len(graph.nodes) : graph.nodes[i].kind \in kinds}
KindsOf(graph)        == {graph.nodes[i].kind : i \in 1..Len(graph.nodes)}
KindOf(graph, id) ==
    LET at == {i \in 1..Len(graph.nodes) : graph.nodes[i].id = id}
    IN  IF at = {} THEN None ELSE graph.nodes[CHOOSE i \in at : TRUE].kind
OutEdges(graph, id) == {i \in 1..Len(graph.edges) : graph.edges[i].src = id}

\* C17: for every function whose CFG is finished (its annotation node
\* `McCabe's complexity: K` was added), that graph has one annotation node and
\* its K equals |E| - |N| + 2, E all the edges of the graph (parallel edges and
\* self-loops counted) and N all its nodes except the annotation node.
C17_ComplexityIdentity ==
    \A fn \in DOMAIN cfg.fn_to_graph :
        LET graph == cfg.fn_to_graph[fn]
            A     == NodesOf(graph, {"complex"})
            N     == (1..Len(graph.nodes)) \ A
        IN  A # {} =>
              /\ Cardinality(A) = 1
              /\ \A i \in A :
                     graph.nodes[i].label = Len(graph.edges) - Cardinality(N) + 2

\* a finished CFG with a self-loop (a loop with an empty body), whose K is 2
C17_Witness ==
    \E fn \in DOMAIN cfg.fn_to_graph :
        LET graph == cfg.fn_to_graph[fn]
        IN  /\ \E i \in NodesOf(graph, {"complex"}) : graph.nodes[i].label = 2
            /\ \E i \in 1..Len(graph.edges) : graph.edges[i].src = graph.edges[i].dst

DeadMarked(e)  == e.style = "dashed" /\ e.color = "gray" /\ e.label = "dead code!"
SomeDeadMark(e) == e.style = "dashed" \/ e.color = "gray" \/ e.label = "dead code!"

\* C18: in every CFG an edge whose source is a return node carries the three
\* dead-code attributes and an edge whose source is not a return node carries
\* none of them; a return node has exactly one outgoing edge, except the
\* return just visited, whose edge is added with the next node (so in a
\* finished CFG every return node has exactly one).
C18_ReturnEdgesAreDead ==
    \A fn \in DOMAIN cfg.fn_to_graph :
        LET graph == cfg.fn_to_graph[fn]
        IN  /\ \A i \in 1..Len(graph.edges) :
                   IF KindOf(graph, graph.edges[i].src) = "ret"
                   THEN DeadMarked(graph.edges[i])
                   ELSE ~SomeDeadMark(graph.edges[i])
            /\ \A i \in NodesOf(graph, {"ret"}) :
                   Cardinality(OutEdges(graph, graph.nodes[i].id)) =
                       IF cfg.is_dead_edge /\ cfg.parent_id = graph.nodes[i].id
                       THEN 0 ELSE 1
            /\ "complex" \in KindsOf(graph) =>
                   \A i \in NodesOf(graph, {"ret"}) :
                       Cardinality(OutEdges(graph, graph.nodes[i].id)) = 1

\* a finished CFG in which a return is the last instruction of a loop body
\* (its edge is the back edge) and another return is followed by <end fn>
C18_Witness ==
    \E fn \in DOMAIN cfg.fn_to_graph :
        LET graph == cfg.fn_to_graph[fn]
        IN  /\ "complex" \in KindsOf(graph)
            /\ \E i \in 1..Len(graph.edges) :
                   /\ DeadMarked(graph.edges[i])
                   /\ KindOf(graph, graph.edges[i].dst) \in {"while", "for"}
            /\ \E i \in 1..Len(graph.edges) :
                   /\ DeadMarked(graph.edges[i])
                   /\ KindOf(graph, graph.edges[i].dst) = "end fn"

\* the node is in the subgraph 'cluster_box' ("Dead code") of the function
InCluster(node_id) ==
    \E j \in 1..Len(sdg.curr_subgraph) : sdg.curr_subgraph[j].id = node_id

\* C19: in the SDG of the function being visited, every node of the tree that
\* is a later sibling of a return of its own block, or is nested in such a
\* sibling, has its node in the "Dead code" cluster, and no other node of the
\* tree has; wherever the builder stands, its dead-code flag tells whether the
\* next instruction of the block would follow a return (so it is back to its
\* value on entry after an if / elif / else arm or a loop body, and false at
\* the start of every function).
C19_DeadCodeLocality ==
    /\ \A i \in 1..Len(g_stmts) :
           g_stmts[i].lex_dead <=> InCluster(g_stmts[i].s_node)
    /\ (g_pc = "unit" /\ ~Skipped) => (sdg.is_dead_code <=> LexDead)

\* -------------------------------------------------------------------------
\* The type model again (SpecTypes)
\* -------------------------------------------------------------------------
\* C20: for all Types a and b of the universe, _Type.__eq__(a, b) is True when
\* a or b is Any, is True when a and b are the same Type, and answers what
\* _Type.__eq__(b, a) answers.
C20_WildcardEquality ==
    eq_pc = "ret" =>
        /\ (eq_self = ANY_T \/ eq_rhs = ANY_T) => eq_ret = TRUE
        /\ eq_self = eq_rhs => eq_ret = TRUE
        /\ eq_ret = TypeEq(eq_rhs, eq_self)

\* a composite Type compared with Any on the right
C20_Witness ==
    /\ eq_pc = "ret" /\ eq_ret = TRUE
    /\ eq_self = ListOf(ArrayOf(INT_T, MaxArraySize)) /\ eq_rhs = ANY_T

\* -------------------------------------------------------------------------
\* The graphs again (SpecGraphs)
\* -------------------------------------------------------------------------
GraphOf(c, fn) == c.fn_to_graph[fn]
IsFinished(graph) == "complex" \in KindsOf(graph)

\* C22: every CFG has exactly one signature node, its first node; a finished
\* CFG has exactly one <end fn> node, added last before the annotation, and no
\* edge leaves it; an unfinished one has none.  A step that visits a top-level
\* `let` or an instruction that is a function call leaves the graphs and the
\* node counter of the CFG builder as they are.
C22_OneEntryOneExit ==
    /\ [](\A fn \in DOMAIN cfg.fn_to_graph :
             LET graph == GraphOf(cfg, fn)
                 n     == Len(graph.nodes)
             IN  /\ NodesOf(graph, {"signature"}) = {1}
                 /\ IF IsFinished(graph)
                    THEN /\ NodesOf(graph, {"end fn"}) = {n - 1}
                         /\ NodesOf(graph, {"complex"}) = {n}
                         /\ OutEdges(graph, graph.nodes[n - 1].id) = {}
                    ELSE NodesOf(graph, {"end fn"}) = {})
    /\ [][((G_var_defn /\ g_stack = <<>>) \/ G_instruction)
              => /\ cfg'.fn_to_graph = cfg.fn_to_graph
                 /\ cfg'.node_id = cfg.node_id]_vars

\* two finished CFGs, a top-level `let` visited after them
C22_Witness ==
    /\ g_stack = <<>> /\ g_count = 4
    /\ DOMAIN cfg.fn_to_graph = GraphFuncNames
    /\ \A fn \in GraphFuncNames :
           IsFinished(GraphOf(cfg, fn)) /\ Len(GraphOf(cfg, fn).nodes) = 3

RECURSIVE ReachableFrom(_, _)
ReachableFrom(graph, ids) ==
    LET more == ids \cup {graph.edges[i].dst :
                             i \in {j \in 1..Len(graph.edges) : graph.edges[j].src \in ids}}
    IN  IF more = ids THEN ids ELSE ReachableFrom(graph, more)

InEdges(graph, id) == {i \in 1..Len(graph.edges) : graph.edges[i].dst = id}

\* C23: in every finished CFG, every node other than the signature node and
\* the annotation has an inbound edge and is reached from the signature node
\* by following edges, the dead-code edges included.
C23_AllNodesReachable ==
    \A fn \in DOMAIN cfg.fn_to_graph :
        LET graph == GraphOf(cfg, fn)
            reach == ReachableFrom(graph, {graph.nodes[1].id})
        IN  IsFinished(graph) =>
                \A i \in 1..Len(graph.nodes) :
                    graph.nodes[i].kind \notin {"signature", "complex"} =>
                        /\ InEdges(graph, graph.nodes[i].id) # {}
                        /\ graph.nodes[i].id \in reach

\* a finished CFG of a case whose `of` arm ends with a return: <end case> is
\* entered by the dead edge of the return and by the edge of the default
C23_Witness ==
    \E fn \in DOMAIN cfg.fn_to_graph :
        LET graph == GraphOf(cfg, fn)
        IN  /\ IsFinished(graph)
            /\ \E i \in NodesOf(graph, {"end case"}) :
                   /\ Cardinality(InEdges(graph, graph.nodes[i].id)) = 2
                   /\ \E j \in InEdges(graph, graph.nodes[i].id) :
                          DeadMarked(graph.edges[j])

Colored(graph, id, color) == {i \in OutEdges(graph, id) : graph.edges[i].color = color}

\* C24: in every finished CFG, every `if` and every `elif` decision node has
\* exactly one green outgoing edge and exactly one red outgoing edge.
C24_DecisionsHaveBothBranches ==
    \A fn \in DOMAIN cfg.fn_to_graph :
        LET graph == GraphOf(cfg, fn)
        IN  IsFinished(graph) =>
                \A i \in NodesOf(graph, {"if", "elif"}) :
                    /\ Cardinality(Colored(graph, graph.nodes[i].id, "green")) = 1
                    /\ Cardinality(Colored(graph, graph.nodes[i].id, "red")) = 1

EndOf(kind) == IF kind = "while" THEN "end while" ELSE "end for"

\* C25: in every finished CFG, every `while` and `for` decision node has
\* exactly one green outgoing edge, exactly one red outgoing edge, which goes
\* to an <end while> / <end for> node entered by no other edge, and exactly one
\* edge coming back into it (from a node made after it, or from itself when
\* the body added no node: then it is the green edge); and the step that ends
\* a loop leaves the builder at that end node with no edge color.
C25_LoopEdges ==
    /\ [](\A fn \in DOMAIN cfg.fn_to_graph :
             LET graph == GraphOf(cfg, fn)
             IN  IsFinished(graph) =>
                   \A i \in NodesOf(graph, {"while", "for"}) :
                     LET w     == graph.nodes[i]
                         green == Colored(graph, w.id, "green")
                         red   == Colored(graph, w.id, "red")
                         back  == {j \in InEdges(graph, w.id) : graph.edges[j].src >= w.id}
                     IN  /\ Cardinality(green) = 1 /\ Cardinality(red) = 1
                         /\ OutEdges(graph, w.id) = green \cup red
                         /\ \A j \in red :
                                /\ KindOf(graph, graph.edges[j].dst) = EndOf(w.kind)
                                /\ InEdges(graph, graph.edges[j].dst) = {j}
                         /\ Cardinality(back) = 1
                         /\ \A j \in green : graph.edges[j].dst = w.id => j \in back)
    /\ [][(G_while_flow_end \/ G_for_flow_end)
              => /\ cfg'.parent_id = cfg'.node_id
                 /\ cfg'.edge_color = None
                 /\ KindOf(GraphOf(cfg', cfg'.curr_fn), cfg'.parent_id)
                        \in {"end while", "end for"}]_vars

\* a finished CFG of a `for` whose body ends with a return: the edge back into
\* the decision is the dead edge of the return
C25_Witness ==
    \E fn \in DOMAIN cfg.fn_to_graph :
        LET graph == GraphOf(cfg, fn)
        IN  /\ IsFinished(graph)
            /\ \E i \in NodesOf(graph, {"for"}) :
                   \E j \in InEdges(graph, graph.nodes[i].id) :
                       DeadMarked(graph.edges[j])

\* the nodes of an SDG: those of the graph and those of its "Dead code" cluster
AllNodes(graph) ==
    IF graph.subgraphs = <<>> THEN graph.nodes ELSE graph.nodes \o graph.subgraphs[1]

CountKind(ns, kind) == Cardinality({i \in 1..Len(ns) : ns[i].kind = kind})

\* C26: for every function whose two graphs are finished, the SDG holds as
\* many nodes of each kind (statements, decisions, terminators, returns) as
\* the CFG.
C26_SameNodesInBothGraphs ==
    \A fn \in DOMAIN cfg.fn_to_graph \cap DOMAIN sdg.fn_to_graph :
        LET cn == GraphOf(cfg, fn).nodes
            sn == AllNodes(GraphOf(sdg, fn))
        IN  (IsFinished(GraphOf(cfg, fn)) /\ IsFinished(GraphOf(sdg, fn))) =>
                \A k \in {cn[i].kind : i \in 1..Len(cn)} \cup {sn[i].kind : i \in 1..Len(sn)} :
                    CountKind(cn, k) = CountKind(sn, k)

\* -------------------------------------------------------------------------
\* The links of the function headers (SpecLinks)
\* -------------------------------------------------------------------------
\* C21: when the listing is written, the header of every function NAME of the
\* file reads `fn <a href="graphs_BASE_NAME.html">NAME</a>(...`: the link is to
\* the page of NAME and wraps exactly NAME, for every order of definition of
\* distinct names.
C21_HeaderLinksOwnPage ==
    l_pc = "done" =>
        \A k \in 1..Len(l_names) :
            l_html[k] = [href |-> l_names[k], wrapped |-> l_names[k], text |-> <<"(">>]

\* -------------------------------------------------------------------------
\* The variable of a for loop (Spec)
\* -------------------------------------------------------------------------
\* C27: for `for (x in e)` with e of type Array(T, N) or List(T) and x not
\* bound before: as long as the loop is open, x is in the variable table with
\* type T and a dereference of x yields T and stages nothing; when the loop is
\* left, x is no longer in the variable table.
C27_LoopVariableLifetime ==
    /\ [](a_pc = "unit" =>
            \A k \in 1..Len(loop_vars) :
                loop_vars[k].fresh =>
                    /\ loop_vars[k].id \in VarIds(_vars)
                    /\ Visit(Deref(loop_vars[k].id), _vars, _fns_params, _fns_ret_types)
                           = Returns(loop_vars[k].tn, <<>>))
    /\ [][(for_flow_end /\ loop_vars[Len(loop_vars)].fresh)
              => loop_vars[Len(loop_vars)].id \notin VarIds(_vars')]_vars

\* in the body of such a loop a write of the loop variable staged nothing
C27_Witness ==
    /\ In("for_flow")
    /\ loop_vars[Len(loop_vars)].fresh
    /\ loop_vars[Len(loop_vars)].id = "x"
    /\ _html_buffer.last.code = "write" /\ staged = <<>>

\* -------------------------------------------------------------------------
\* The counters of the scopes (Spec)
\* -------------------------------------------------------------------------
RECURSIVE SumSeq(_)
SumSeq(q) == IF q = <<>> THEN 0 ELSE Head(q) + SumSeq(Tail(q))

\* C28: in every state the variable table has as many bindings as the counters
\* on the scope stack and the current counter add up to; and a step that leaves
\* scopes keeps exactly the bindings of the scopes still open, in their order,
\* whether or not a declaration of the scopes left had failed.
C28_CountersMatchTable ==
    /\ [](Len(_vars) = SumSeq(_num_of_vars_stack) + _num_of_new_vars)
    /\ [][Len(_num_of_vars_stack') < Len(_num_of_vars_stack) =>
              /\ _num_of_vars_stack' =
                     SubSeq(_num_of_vars_stack, 1, Len(_num_of_vars_stack'))
              /\ _num_of_new_vars' = _num_of_vars_stack[Len(_num_of_vars_stack') + 1]
              /\ _vars' = SubSeq(_vars, 1,
                     SumSeq(SubSeq(_num_of_vars_stack, 1, Len(_num_of_vars_stack') + 1)))]_vars

\* a declaration has just failed in an inner scope that holds a binding of its
\* own, below a scope that holds one too
C28_Witness ==
    /\ a_pc = "unit"
    /\ Len(_num_of_vars_stack) >= 2
    /\ _num_of_vars_stack[Len(_num_of_vars_stack)] >= 1
    /\ _num_of_new_vars >= 1
    /\ staged = <<"Variable already defined">>

\* -------------------------------------------------------------------------
\* The staged messages and the lines of the listing (Spec)
\* -------------------------------------------------------------------------
\* C29: a message accepted by _set_err_string during the visit of a construct
\* is on the line that the construct writes next, and the slot is empty again
\* before anything else is visited; so no state between two lines has a
\* pending message, and when get_html() has returned has_errors() tells whether
\* some line of the listing is a <div class="error">.
C29_StagedErrorsFlushed ==
    /\ [][staged' # <<>> =>
              /\ _err_string' = None
              /\ _html_buffer'.last.err = First(staged')]_vars
    /\ [](a_pc = "done" =>
              /\ _err_string = None
              /\ _has_errors <=> _html_buffer.errdiv)

\* the same for the visits that return, with the end of the analysis
C29_HoldsWhenNoVisitRaises ==
    /\ a_pc \in {"unit", "done"} =>
           /\ _err_string = None
           /\ staged # <<>> => _html_buffer.last.err = First(staged)
    /\ a_pc = "done" => (_has_errors <=> _html_buffer.errdiv)

\* -------------------------------------------------------------------------
\* The scope of the body of an `if` in IplInterpreter (SpecIpl)
\* -------------------------------------------------------------------------
\* C30: when if_flow of IplInterpreter has returned, whatever the number of
\* elif / else arms of the construct, the variable table, the stack of scope
\* counters and the indentation are what they were when it was called.
C30_IfScopeClosedOnce ==
    ipl_if_left.returned =>
        /\ ipl_vars = ipl_if_left.before.vars
        /\ ipl_num_of_vars_stack = ipl_if_left.before.stack
        /\ ipl_indent_str = ipl_if_left.before.indent
====
